---- MODULE Spec2Model ----
(***************************************************************************)
(* Scenario API (FastAPI + SQLAlchemy): accounts, authentication,          *)
(* watchlists, media and views, modelled as a state machine over the        *)
(* committed database tables.  One action per HTTP handler; every handler  *)
(* records its response in `last`.                                          *)
(***************************************************************************)
EXTENDS Integers, FiniteSets, Sequences, TLC

VARIABLES
    users,             \* user_model: id -> row, for the ids that have a row
    next_user_id,      \* ids handed out so far + 1 (uuid4: never reused)
    watchlists,        \* watchlist_model: id -> row
    next_watchlist_id,
    medias,            \* media_model: id -> row
    next_media_id,
    views,             \* view_model: id -> row
    next_view_id,
    issued,            \* access tokens signed by create_access_token so far
    next_reset_token,  \* reset tokens generated so far + 1 (uuid4: never reused)
    consumed,          \* history: reset tokens accepted by reset_password
    now,               \* the clock, in units of the access-token lifetime
    pending,           \* a PUT /users request that has read its row and has
                       \* not reached database_session.commit() yet
    served,            \* the requests being served, each with its position
                       \* in the dependency chain, and the sessions that
                       \* SessionLocal() has made for them
    restore,           \* the run of app/database/restore_data.py: its position,
                       \* the dump file it was given, the answers typed at its
                       \* prompt, the outcome of psql and its exit status
    last               \* the most recent request and its response

vars == <<users, next_user_id, watchlists, next_watchlist_id, medias,
          next_media_id, views, next_view_id, issued, next_reset_token,
          consumed, now, pending, restore, served, last>>

accountVars == <<users, next_user_id, issued, next_reset_token, consumed>>
contentVars == <<watchlists, next_watchlist_id, medias, next_media_id,
                 views, next_view_id>>

----------------------------------------------------------------------------
(* Bounds of the model *)

MaxUsers == 2          \* user rows ever created
MaxSessions == 2       \* access tokens ever issued
MaxResetTokens == 2    \* reset tokens ever generated
MaxNow == 1            \* the clock stops here
MaxWatchlists == 2     \* watchlist rows ever created
MaxMedias == 2         \* media rows ever created
MaxViews == 2          \* view rows ever created
MaxChars == 4          \* characters of a password given to the validator
MaxPrompts == 3        \* answers typed at the prompt of the restore tool
MaxDelta == 3          \* the longest custom lifetime given to create_access_token
MaxRequests == 2       \* requests whose session is followed

(* Program constants *)

\* settings.JWT_ACCESS_TOKEN_EXPIRES_IN, taken as the unit of the clock
JWT_ACCESS_TOKEN_EXPIRES_IN == 1

----------------------------------------------------------------------------
(* Values *)

None == "None"          \* Python None / SQL NULL / JSON null, for a string
Unset == "Unset"        \* a field the request body does not carry
NoToken == 0            \* password_token IS NULL
\* a request without an access_token cookie, and one whose cookie is empty
NoCookie == [sig |-> "absent", sub |-> 0, exp |-> 0]
EmptyCookie == [sig |-> "empty", sub |-> 0, exp |-> 0]
NoBody == [id |-> 0, username |-> "", email |-> "", profile_banner |-> ""]
NoId == 0               \* an optional id the request body does not carry
NoGenre == -1           \* the genre query parameter is absent (None)
NoRequest == [empty |-> TRUE]   \* a request without a body
NoPending == [op |-> "none"]    \* no request is between its read and its commit
\* no request has arrived and no session has been made
NoRequests == [requests |-> <<>>, sessions |-> <<>>]
\* the restore tool has not been started
NotStarted ==
    [pc |-> "idle", dump_file |-> "readable", answers |-> <<>>, psql |-> "not run",
     exit_code |-> -1]

UserIds == 1..MaxUsers
WatchlistIds == 1..MaxWatchlists
MediaIds == 1..MaxMedias
ViewIds == 1..MaxViews

Usernames == {"alice", "bobby"}
Emails == {"a@x.io", "b@x.io"}
Passwords == {"Passw0rd!", "S3cret+pw"}
SomePassword == {"Passw0rd!"}
Salts == {"s1", "s2"}
FirstSalt == {"s1"}
Banners == {"banner.png"}

ExistingUsers == DOMAIN users
ExistingWatchlists == DOMAIN watchlists
ExistingMedias == DOMAIN medias
ExistingViews == DOMAIN views

\* session.add(row); session.delete(row)
Insert(table, id, row) == [i \in DOMAIN table \cup {id} |-> IF i = id THEN row ELSE table[i]]
Delete(table, ids) == [i \in DOMAIN table \ ids |-> table[i]]

Min(S) == CHOOSE x \in S : \A y \in S : x <= y

----------------------------------------------------------------------------
(* app/core/security.py *)

\* bcrypt.hashpw(password, bcrypt.gensalt()): a salted one-way digest
hash_password(password, salt) ==
    [alg |-> "bcrypt", salt |-> salt, digest |-> <<salt, password>>]

\* bcrypt.checkpw: re-hash the candidate with the salt stored in the digest
verify_password(plain_password, hashed_password) ==
    hash_password(plain_password, hashed_password.salt) = hashed_password

\* create_access_token with a lifetime of zero: the token is born expired
create_access_token_Expired(subject, expires_delta) ==
    [sig |-> "valid", sub |-> subject, exp |-> now]

\* jwt.encode({"exp": utcnow() + lifetime, "sub": str(subject)}, secret);
\* expires_delta is <<>> for None and <<d>> for a timedelta d, and
\* `if expires_delta:` is false for None and for a zero timedelta
create_access_token(subject, expires_delta) ==
    [sig |-> "valid",
     sub |-> subject,
     exp |-> IF expires_delta # <<>> /\ expires_delta[1] # 0
             THEN now + expires_delta[1]
             ELSE now + JWT_ACCESS_TOKEN_EXPIRES_IN]

\* verify_token deciding on exp before it looks at the signature
verify_token_ExpiryFirst(token) ==
    IF token.exp <= now THEN [error |-> "expired_token_error_key", sub |-> 0]
    ELSE IF token.sig # "valid" THEN [error |-> "invalid_token_error_key", sub |-> 0]
    ELSE [error |-> "", sub |-> token.sub]

\* jwt.decode: the signature is checked first, then exp (expired iff
\* exp <= now); the result is the error key raised or the subject
verify_token(token) ==
    IF token.sig # "valid" THEN [error |-> "invalid_token_error_key", sub |-> 0]
    ELSE IF token.exp <= now THEN [error |-> "expired_token_error_key", sub |-> 0]
    ELSE [error |-> "", sub |-> token.sub]

\* tokens a client can present without knowing JWT_SECRET_KEY: signed with
\* another key (expired or not), or not a JWT at all
ForgedTokens ==
    {[sig |-> "forged", sub |-> 1, exp |-> e] : e \in {0, MaxNow + 1}}
    \cup {[sig |-> "malformed", sub |-> 0, exp |-> 0]}

\* every value the access_token cookie of a request can have
Cookies == {NoCookie, EmptyCookie} \cup ForgedTokens \cup issued

\* the cookies a browser holds: none, or one a login has set
Sessions == {NoCookie} \cup issued

----------------------------------------------------------------------------
(* app/api/dependencies.py *)

\* get_current_user refusing the token of a user whose password hash is not
\* the one made at registration any more
get_current_user_RevokedByPasswordChange(access_token) ==
    IF access_token \in {NoCookie, EmptyCookie}
    THEN [status |-> 403, detail |-> "Access token not found", user |-> 0]
    ELSE LET verified == verify_token(access_token) IN
         IF verified.error # ""
         THEN [status |-> 401, detail |-> verified.error, user |-> 0]
         ELSE IF verified.sub \notin ExistingUsers
              THEN [status |-> 403, detail |-> "Could not validate credentials", user |-> 0]
              ELSE IF users[verified.sub].hashed_password.digest[2] # "Passw0rd!"
              THEN [status |-> 403, detail |-> "Could not validate credentials", user |-> 0]
              ELSE [status |-> 200, detail |-> "", user |-> verified.sub]

\* get_current_user trusting the subject of the token without querying the user
get_current_user_NoUserLookup(access_token) ==
    IF access_token \in {NoCookie, EmptyCookie}
    THEN [status |-> 403, detail |-> "Access token not found", user |-> 0]
    ELSE LET verified == verify_token(access_token) IN
         IF verified.error # ""
         THEN [status |-> 401, detail |-> verified.error, user |-> 0]
         ELSE [status |-> 200, detail |-> "", user |-> verified.sub]

\* get_current_user: the status it raises (200 when it returns a user)
get_current_user(access_token) ==
    IF access_token \in {NoCookie, EmptyCookie}
    THEN [status |-> 403, detail |-> "Access token not found", user |-> 0]
    ELSE LET verified == verify_token(access_token) IN
         IF verified.error # ""
         THEN [status |-> 401, detail |-> verified.error, user |-> 0]
         ELSE IF verified.sub \notin ExistingUsers
              THEN [status |-> 403, detail |-> "Could not validate credentials", user |-> 0]
              ELSE [status |-> 200, detail |-> "", user |-> verified.sub]

----------------------------------------------------------------------------
(* Responses *)

\* access_token: the cookie of the request; request: its body; caller: the
\* user get_current_user returned, 0 when there is none; target: the id in the path, or the row the
\* request is about, 0 when none
Response(op, access_token, request, status, detail, caller, target) ==
    [op |-> op, access_token |-> access_token, request |-> request,
     caller |-> caller, target |-> target, status |-> status,
     detail |-> detail, set_cookie |-> NoCookie, body |-> NoBody]

\* the request ends with an error response and nothing is committed
\* (get_database_session closes the session, which discards pending changes)
Refuse(op, access_token, request, status, detail, caller, target) ==
    /\ last' = Response(op, access_token, request, status, detail, caller, target)
    /\ UNCHANGED <<accountVars, contentVars, now, pending, restore, served>>

----------------------------------------------------------------------------
(* Storage-layer constraints of user_model (app/models/user.py) *)

\* a unique constraint on username only
UniqueViolation_UsernameOnly(id, row) ==
    \E o \in ExistingUsers \ {id} : users[o].username = row.username

\* unique=True on username and on email, checked against the other rows
UniqueViolation(id, row) ==
    \E o \in ExistingUsers \ {id} :
        users[o].username = row.username \/ users[o].email = row.email

\* nullable=False on username and email
NotNullViolation(row) ==
    row.username = None \/ row.email = None

IntegrityError(id, row) == UniqueViolation(id, row) \/ NotNullViolation(row)

\* ondelete="CASCADE" / cascade="all, delete-orphan": the rows that go with
\* a set of users and with a set of watchlists
WatchlistsOf(user_ids) == {w \in ExistingWatchlists : watchlists[w].author_id \in user_ids}
MediasOf(watchlist_ids) == {m \in ExistingMedias : medias[m].watchlist_id \in watchlist_ids}
ViewsOf(user_ids) == {v \in ExistingViews : views[v].viewer_id \in user_ids}

----------------------------------------------------------------------------
(* app/schemas/validation_types.py: a text is the sequence of its characters *)

\* str.isdigit, str.isupper, str.islower on the ASCII characters
Digit == {"0", "1", "2", "3", "4", "5", "6", "7", "8", "9"}
Upper == {"A", "B", "C", "D", "E", "F", "G", "H", "I", "J", "K", "L", "M",
          "N", "O", "P", "Q", "R", "S", "T", "U", "V", "W", "X", "Y", "Z"}
Lower == {"a", "b", "c", "d", "e", "f", "g", "h", "i", "j", "k", "l", "m",
          "n", "o", "p", "q", "r", "s", "t", "u", "v", "w", "x", "y", "z"}
\* the characters of "!@#$%^&*()-+"
Special == {"!", "@", "#", "$", "%", "^", "&", "*", "(", ")", "-", "+"}

\* any(char in class for char in text)
AnyChar(text, class) == \E i \in 1..Len(text) : text[i] \in class

\* raise CustomExceptionError(error_dict), and return value
Raise(error_dict) ==
    [raised |-> TRUE, key |-> error_dict.key, message |-> error_dict.message,
     status_code |-> error_dict.status_code, value |-> <<>>]
Return(value) ==
    [raised |-> FALSE, key |-> "", message |-> "", status_code |-> 0, value |-> value]

\* app/services/constant/response_constant.py
PASSWORD_MISSING_DIGIT_ERROR ==
    [key |-> "password_missing_digit_error_key",
     message |-> "Password must contain at least one digit.", status_code |-> 400]
PASSWORD_MISSING_UPPERCASE_ERROR ==
    [key |-> "password_missing_uppercase_error_key",
     message |-> "Password must contain at least one uppercase letter.",
     status_code |-> 400]
PASSWORD_MISSING_LOWER_CASE_ERROR ==
    [key |-> "password_missing_lower_case_error_key",
     message |-> "Password must contain at least one lowercase letter.",
     status_code |-> 400]
PASSWORD_MISSING_SPECIAL_CHARACTER_ERROR ==
    [key |-> "password_missing_special_character_error_key",
     message |-> "Password must contain at least one special character.",
     status_code |-> 400]
INVALID_EMAIL_ERROR ==
    [key |-> "invalid_email_error_key", message |-> "Invalid email.",
     status_code |-> 400]

\* str.strip(): the text between its first and its last character that is
\* not white space
Whitespace == {" "}
strip(text) ==
    LET solid == {i \in DOMAIN text : text[i] \notin Whitespace} IN
    IF solid = {} THEN <<>>
    ELSE SubSeq(text, Min(solid), CHOOSE i \in solid : \A j \in solid : j <= i)

\* EMAIL_REGEX.match: ^[a-zA-Z0-9._%+-]+@[a-zA-Z0-9.-]+\.[a-zA-Z]{2,}$
EMAIL_REGEX_match(text) ==
    \E at \in DOMAIN text, dot \in DOMAIN text :
        /\ 1 < at /\ at + 1 < dot /\ dot + 2 <= Len(text)
        /\ text[at] = "@"
        /\ text[dot] = "."
        /\ \A i \in 1..(at - 1) :
              text[i] \in Lower \cup Upper \cup Digit \cup {".", "_", "%", "+", "-"}
        /\ \A i \in (at + 1)..(dot - 1) :
              text[i] \in Lower \cup Upper \cup Digit \cup {".", "-"}
        /\ \A i \in (dot + 1)..Len(text) : text[i] \in Lower \cup Upper

email_is_valid(email) ==
    IF ~EMAIL_REGEX_match(strip(email))
    THEN Raise(INVALID_EMAIL_ERROR)
    ELSE Return(strip(email))

\* password_is_valid with the test for an uppercase letter made first
password_is_valid_UppercaseFirst(password) ==
    IF ~AnyChar(password, Upper)
    THEN Raise(PASSWORD_MISSING_UPPERCASE_ERROR)
    ELSE IF ~AnyChar(password, Digit)
    THEN Raise(PASSWORD_MISSING_DIGIT_ERROR)
    ELSE IF ~AnyChar(password, Lower)
    THEN Raise(PASSWORD_MISSING_LOWER_CASE_ERROR)
    ELSE IF ~AnyChar(password, Special)
    THEN Raise(PASSWORD_MISSING_SPECIAL_CHARACTER_ERROR)
    ELSE Return(password)

password_is_valid(password) ==
    IF ~AnyChar(password, Digit)
    THEN Raise(PASSWORD_MISSING_DIGIT_ERROR)
    ELSE IF ~AnyChar(password, Upper)
    THEN Raise(PASSWORD_MISSING_UPPERCASE_ERROR)
    ELSE IF ~AnyChar(password, Lower)
    THEN Raise(PASSWORD_MISSING_LOWER_CASE_ERROR)
    ELSE IF ~AnyChar(password, Special)
    THEN Raise(PASSWORD_MISSING_SPECIAL_CHARACTER_ERROR)
    ELSE Return(password)

----------------------------------------------------------------------------
(* app/schemas/auth.py and app/schemas/user.py: the validation of a request
   body, and the handlers of app/core/exception_handlers.py that answer a
   body that fails it *)

\* the characters of the strings that request bodies carry
Characters ==
    ("alice" :> <<"a", "l", "i", "c", "e">>) @@
    ("bobby" :> <<"b", "o", "b", "b", "y">>) @@
    ("al" :> <<"a", "l">>) @@
    ("a@x.io" :> <<"a", "@", "x", ".", "i", "o">>) @@
    ("b@x.io" :> <<"b", "@", "x", ".", "i", "o">>) @@
    (" a@x.io " :> <<" ", "a", "@", "x", ".", "i", "o", " ">>) @@
    ("a.x.io" :> <<"a", ".", "x", ".", "i", "o">>) @@
    ("Passw0rd!" :> <<"P", "a", "s", "s", "w", "0", "r", "d", "!">>) @@
    ("S3cret+pw" :> <<"S", "3", "c", "r", "e", "t", "+", "p", "w">>) @@
    ("Password!" :> <<"P", "a", "s", "s", "w", "o", "r", "d", "!">>) @@
    ("Pw0!" :> <<"P", "w", "0", "!">>) @@
    ("y" :> <<"y">>) @@
    ("yes" :> <<"y", "e", "s">>) @@
    (" Y " :> <<" ", "Y", " ">>) @@
    ("n" :> <<"n">>) @@
    ("no" :> <<"n", "o">>) @@
    ("" :> <<>>) @@
    ("maybe" :> <<"m", "a", "y", "b", "e">>) @@
    ("ok" :> <<"o", "k">>)

Chars(string) == Characters[string]
Str(text) == CHOOSE string \in DOMAIN Characters : Characters[string] = text

\* settings.USERNAME_MIN_LENGTH .. settings.PASSWORD_MAX_LENGTH
USERNAME_MIN_LENGTH == 5
USERNAME_MAX_LENGTH == 30
PASSWORD_MIN_LENGTH == 7
PASSWORD_MAX_LENGTH == 30

\* the error pydantic records for a string outside Field(min_length,
\* max_length), none when the length is in range
LengthErrors(field, text, min_length, max_length) ==
    IF Len(text) < min_length
    THEN <<[loc |-> <<"body", field>>, msg |-> "String is too short",
            type |-> "string_too_short"]>>
    ELSE IF Len(text) > max_length
    THEN <<[loc |-> <<"body", field>>, msg |-> "String is too long",
            type |-> "string_too_long"]>>
    ELSE <<>>

\* passwords_match: the ValueError pydantic records when the password was
\* validated and the confirmation differs from it
passwords_match(value, password, password_errors) ==
    IF password_errors = <<>> /\ value # password
    THEN <<[loc |-> <<"body", "confirm_password">>,
            msg |-> "Value error, Les mots de passe ne correspondent pas",
            type |-> "value_error"]>>
    ELSE <<>>

\* value_custom_exception_error_handler
value_custom_exception_error_handler(exception) ==
    [status |-> exception.status_code, detail |-> exception.key,
     content |-> [key |-> exception.key, message |-> exception.message]]

\* validation_exception_handler
validation_exception_handler(errors) ==
    [status |-> 422, detail |-> "Pydantic validation error",
     content |-> [detail |-> "Pydantic validation error",
                  errors |-> [i \in DOMAIN errors |->
                                 [location |-> errors[i].loc,
                                  message |-> errors[i].msg,
                                  type |-> errors[i].type]]]]

\* the body is valid: the handler is called with its validated fields
Validated(value) == [status |-> 200, detail |-> "", value |-> value]

\* UserRegister accepting a confirmation that differs from the password
UserRegister_NoPasswordsMatch(user_data) ==
    LET username_errors == LengthErrors("username", Chars(user_data.username),
                                        USERNAME_MIN_LENGTH, USERNAME_MAX_LENGTH)
        email == email_is_valid(Chars(user_data.email))
        email_errors == LengthErrors("email", email.value, 0, 255)
        password == password_is_valid(Chars(user_data.password))
        password_errors == LengthErrors("password", password.value,
                                        PASSWORD_MIN_LENGTH, PASSWORD_MAX_LENGTH)
        confirm_password == password_is_valid(Chars(user_data.confirm_password))
        errors == username_errors \o email_errors \o password_errors
    IN IF email.raised THEN value_custom_exception_error_handler(email)
       ELSE IF password.raised THEN value_custom_exception_error_handler(password)
       ELSE IF confirm_password.raised
       THEN value_custom_exception_error_handler(confirm_password)
       ELSE IF errors # <<>> THEN validation_exception_handler(errors)
       ELSE Validated([username |-> user_data.username,
                       email |-> Str(email.value),
                       password |-> Str(password.value)])

\* the fields are validated in the order of their definition; an error
\* pydantic records is kept until the end, a CustomExceptionError leaves the
\* validation at once
UserRegister(user_data) ==
    LET username_errors == LengthErrors("username", Chars(user_data.username),
                                        USERNAME_MIN_LENGTH, USERNAME_MAX_LENGTH)
        email == email_is_valid(Chars(user_data.email))
        email_errors == LengthErrors("email", email.value, 0, 255)
        password == password_is_valid(Chars(user_data.password))
        password_errors == LengthErrors("password", password.value,
                                        PASSWORD_MIN_LENGTH, PASSWORD_MAX_LENGTH)
        confirm_password == password_is_valid(Chars(user_data.confirm_password))
        confirm_errors == passwords_match(confirm_password.value, password.value,
                                          password_errors)
        errors == username_errors \o email_errors \o password_errors \o confirm_errors
    IN IF email.raised THEN value_custom_exception_error_handler(email)
       ELSE IF password.raised THEN value_custom_exception_error_handler(password)
       ELSE IF confirm_password.raised
       THEN value_custom_exception_error_handler(confirm_password)
       ELSE IF errors # <<>> THEN validation_exception_handler(errors)
       ELSE Validated([username |-> user_data.username,
                       email |-> Str(email.value),
                       password |-> Str(password.value)])

\* confirm_password is a plain str here: only the password goes through
\* password_is_valid
UserUpdatePassword(password_data) ==
    LET password == password_is_valid(Chars(password_data.password))
        password_errors == LengthErrors("password", password.value,
                                        PASSWORD_MIN_LENGTH, PASSWORD_MAX_LENGTH)
        confirm_errors == passwords_match(Chars(password_data.confirm_password),
                                          password.value, password_errors)
        errors == password_errors \o confirm_errors
    IN IF password.raised THEN value_custom_exception_error_handler(password)
       ELSE IF errors # <<>> THEN validation_exception_handler(errors)
       ELSE Validated([password |-> Str(password.value)])

\* the response to a body that failed its validation
Invalid(op, access_token, request, answer, caller, target) ==
    /\ last' = [Response(op, access_token, request, answer.status, answer.detail,
                         caller, target)
                   EXCEPT !.body = answer.content]
    /\ UNCHANGED <<accountVars, contentVars, now, pending, restore, served>>

----------------------------------------------------------------------------
(* app/api/v1/auth.py *)

register_user(username, email, password, salt) ==
    LET request == [username |-> username, email |-> email, password |-> password]
        new_user == [username |-> username, email |-> email,
                     hashed_password |-> hash_password(password, salt),
                     password_token |-> NoToken, profile_banner |-> None]
    IN IF IntegrityError(0, new_user)
       THEN Refuse("register_user", NoCookie, request, 400,
                   "Username or email already exists", 0, 0)
       ELSE /\ next_user_id <= MaxUsers
            /\ users' = Insert(users, next_user_id, new_user)
            /\ next_user_id' = next_user_id + 1
            /\ last' = Response("register_user", NoCookie, request, 201,
                                "User created successfully",
                                0, next_user_id)
            /\ UNCHANGED <<issued, next_reset_token, consumed, contentVars, now, pending, restore, served>>

\* query(User).filter(User.email == email).first(); 0 when there is none
UserByEmail(email) ==
    LET found == {u \in ExistingUsers : users[u].email = email}
    IN IF found = {} THEN 0 ELSE Min(found)

\* login_user answering an unknown email differently from a wrong password
login_user_RevealsUnknownEmail(email, password) ==
    LET request == [email |-> email, password |-> password]
        user == UserByEmail(email) IN
    IF user = 0
    THEN Refuse("login_user", NoCookie, request, 404, "User not found", 0, 0)
    ELSE IF ~verify_password(password, users[user].hashed_password)
    THEN Refuse("login_user", NoCookie, request, 401, "Invalid credentials", 0, 0)
    ELSE LET access_token == create_access_token(user, <<>>) IN
         /\ Cardinality(issued \cup {access_token}) <= MaxSessions
         /\ issued' = issued \cup {access_token}
         /\ last' = [Response("login_user", NoCookie, request, 200, "", 0, user)
                        EXCEPT
                        !.set_cookie = access_token,
                        !.body = [id |-> user,
                                  username |-> users[user].username,
                                  email |-> users[user].email,
                                  profile_banner |-> users[user].profile_banner]]
         /\ UNCHANGED <<users, next_user_id, next_reset_token, consumed,
                        contentVars, now, pending, restore, served>>

login_user(email, password) ==
    LET request == [email |-> email, password |-> password]
        user == UserByEmail(email) IN
    IF user = 0 \/ ~verify_password(password, users[user].hashed_password)
    THEN Refuse("login_user", NoCookie, request, 401, "Invalid credentials", 0, 0)
    ELSE LET access_token == create_access_token(user, <<>>) IN
         /\ Cardinality(issued \cup {access_token}) <= MaxSessions
         /\ issued' = issued \cup {access_token}
         /\ last' = [Response("login_user", NoCookie, request, 200, "", 0, user) EXCEPT
                        !.set_cookie = access_token,
                        !.body = [id |-> user,
                                  username |-> users[user].username,
                                  email |-> users[user].email,
                                  profile_banner |-> users[user].profile_banner]]
         /\ UNCHANGED <<users, next_user_id, next_reset_token, consumed,
                        contentVars, now, pending, restore, served>>

\* request_password_reset leaving the token alone when the user holds one
request_password_reset_KeepsEarlierToken(email, email_sent) ==
    LET request == [email |-> email]
        user == UserByEmail(email) IN
    IF user = 0
    THEN Refuse("request_password_reset", NoCookie, request, 401, "User not found", 0, 0)
    ELSE /\ next_reset_token <= MaxResetTokens
         /\ users' = IF users[user].password_token = NoToken
                     THEN [users EXCEPT ![user].password_token = next_reset_token]
                     ELSE users
         /\ next_reset_token' = next_reset_token + 1
         /\ last' = IF email_sent
                    THEN Response("request_password_reset", NoCookie, request, 200,
                                  "Password reset email sent", 0, user)
                    ELSE Response("request_password_reset", NoCookie, request, 500,
                                  "Failed to send email", 0, user)
         /\ UNCHANGED <<next_user_id, issued, consumed, contentVars, now, pending, restore, served>>

\* request_password_reset sending the email before it stores the token
request_password_reset_SendsFirst(email, email_sent) ==
    LET request == [email |-> email]
        user == UserByEmail(email) IN
    IF user = 0
    THEN Refuse("request_password_reset", NoCookie, request, 401, "User not found", 0, 0)
    ELSE IF ~email_sent
    THEN Refuse("request_password_reset", NoCookie, request, 500,
                "Failed to send email", 0, user)
    ELSE /\ next_reset_token <= MaxResetTokens
         /\ users' = [users EXCEPT ![user].password_token = next_reset_token]
         /\ next_reset_token' = next_reset_token + 1
         /\ last' = Response("request_password_reset", NoCookie, request, 200,
                             "Password reset email sent", 0, user)
         /\ UNCHANGED <<next_user_id, issued, consumed, contentVars, now, pending, restore, served>>

request_password_reset(email, email_sent) ==
    LET request == [email |-> email]
        user == UserByEmail(email) IN
    IF user = 0
    THEN Refuse("request_password_reset", NoCookie, request, 401, "User not found", 0, 0)
    ELSE /\ next_reset_token <= MaxResetTokens
         /\ users' = [users EXCEPT ![user].password_token = next_reset_token]
         /\ next_reset_token' = next_reset_token + 1
         /\ last' = IF email_sent
                    THEN Response("request_password_reset", NoCookie, request, 200,
                                  "Password reset email sent", 0, user)
                    ELSE Response("request_password_reset", NoCookie, request, 500,
                                  "Failed to send email", 0, user)
         /\ UNCHANGED <<next_user_id, issued, consumed, contentVars, now, pending, restore, served>>

\* the lookup falling back on the first user when no row holds the token
UserByPasswordToken_FirstUser(password_token) ==
    LET found == {u \in ExistingUsers : users[u].password_token = password_token}
    IN IF found # {} THEN Min(found)
       ELSE IF ExistingUsers # {} THEN Min(ExistingUsers) ELSE 0

\* query(User).filter(User.password_token == token).first(); 0 when none
UserByPasswordToken(password_token) ==
    LET found == {u \in ExistingUsers : users[u].password_token = password_token}
    IN IF found = {} THEN 0 ELSE Min(found)

\* reset_password without `user.password_token = None`
reset_password_KeepsToken(password, password_token, salt) ==
    LET request == [password |-> password, password_token |-> password_token]
        user == UserByPasswordToken(password_token) IN
    IF user = 0
    THEN Refuse("reset_password", NoCookie, request, 400, "Invalid reset token", 0, 0)
    ELSE /\ salt # users[user].hashed_password.salt
         /\ users' = [users EXCEPT
                        ![user].hashed_password = hash_password(password, salt)]
         /\ consumed' = consumed \cup {password_token}
         /\ last' = Response("reset_password", NoCookie, request, 200,
                             "Password reset successfully",
                             0, user)
         /\ UNCHANGED <<next_user_id, issued, next_reset_token, contentVars, now, pending, restore, served>>

reset_password(password, password_token, salt) ==
    LET request == [password |-> password, password_token |-> password_token]
        user == UserByPasswordToken(password_token) IN
    IF user = 0
    THEN Refuse("reset_password", NoCookie, request, 400, "Invalid reset token", 0, 0)
    ELSE /\ salt # users[user].hashed_password.salt
         /\ users' = [users EXCEPT
                        ![user].hashed_password = hash_password(password, salt),
                        ![user].password_token = NoToken]
         /\ consumed' = consumed \cup {password_token}
         /\ last' = Response("reset_password", NoCookie, request, 200,
                             "Password reset successfully",
                             0, user)
         /\ UNCHANGED <<next_user_id, issued, next_reset_token, contentVars, now, pending, restore, served>>

logout_user ==
    /\ last' = Response("logout_user", NoCookie, NoRequest, 200,
                        "Logged out successfully", 0, 0)
    /\ UNCHANGED <<accountVars, contentVars, now, pending, restore, served>>

----------------------------------------------------------------------------
(* app/api/v1/users.py *)

get_user(user_id) ==
    IF user_id \notin ExistingUsers
    THEN Refuse("get_user", NoCookie, NoRequest, 404, "User not found", 0, user_id)
    ELSE /\ last' = [Response("get_user", NoCookie, NoRequest, 200, "", 0, user_id)
                        EXCEPT
                        !.body = [username |-> users[user_id].username,
                                  email |-> users[user_id].email,
                                  profile_banner |-> users[user_id].profile_banner]]
         /\ UNCHANGED <<accountVars, contentVars, now, pending, restore, served>>

\* get_user_banner without its "User not found" check: model_validate(None)
\* raises and the request ends as an internal error
get_user_banner_Unchecked(user_id) ==
    IF user_id \notin ExistingUsers
    THEN Refuse("get_user_banner", NoCookie, NoRequest, 500,
                "Internal server error", 0, user_id)
    ELSE /\ last' = [Response("get_user_banner", NoCookie, NoRequest, 200, "", 0,
                              user_id)
                        EXCEPT
                        !.body = [profile_banner |-> users[user_id].profile_banner]]
         /\ UNCHANGED <<accountVars, contentVars, now, pending, restore, served>>

get_user_banner(user_id) ==
    IF user_id \notin ExistingUsers
    THEN Refuse("get_user_banner", NoCookie, NoRequest, 404, "User not found", 0,
                user_id)
    ELSE /\ last' = [Response("get_user_banner", NoCookie, NoRequest, 200, "", 0,
                              user_id)
                        EXCEPT
                        !.body = [profile_banner |-> users[user_id].profile_banner]]
         /\ UNCHANGED <<accountVars, contentVars, now, pending, restore, served>>

\* the update hashing and storing the password field whether or not the body
\* carries it
ApplyUserUpdate_AlwaysRehashes(row, user_data, salt) ==
    [row EXCEPT
        !.username = IF user_data.username = Unset THEN @ ELSE user_data.username,
        !.email = IF user_data.email = Unset THEN @ ELSE user_data.email,
        !.hashed_password = hash_password(user_data.password, salt)]

\* user_data.model_dump(exclude_unset=True) applied to the row with setattr;
\* a password is stored as its hash
ApplyUserUpdate(row, user_data, salt) ==
    [row EXCEPT
        !.username = IF user_data.username = Unset THEN @ ELSE user_data.username,
        !.email = IF user_data.email = Unset THEN @ ELSE user_data.email,
        !.hashed_password = IF user_data.password = Unset THEN @
                            ELSE hash_password(user_data.password, salt)]

update_user(access_token, user_id, user_data, salt) ==
    LET current_user == get_current_user(access_token) IN
    IF current_user.status # 200
    THEN Refuse("update_user", access_token, user_data, current_user.status,
                current_user.detail, 0, user_id)
    ELSE IF current_user.user # user_id
    THEN Refuse("update_user", access_token, user_data, 403,
                "Not authorized to modify this user", current_user.user, user_id)
    ELSE IF user_id \notin ExistingUsers
    THEN Refuse("update_user", access_token, user_data, 404, "User not found",
                current_user.user, user_id)
    ELSE IF user_data.password = None
    THEN \* hash_password(None) raises AttributeError: unhandled
         Refuse("update_user", access_token, user_data, 500, "internal_server_error_key",
                current_user.user, user_id)
    ELSE LET user == ApplyUserUpdate(users[user_id], user_data, salt) IN
         IF IntegrityError(user_id, user)
         THEN Refuse("update_user", access_token, user_data, 400,
                     "Username or email already exists", current_user.user, user_id)
         ELSE /\ user_data.password # Unset => salt # users[user_id].hashed_password.salt
              /\ users' = [users EXCEPT ![user_id] = user]
              /\ last' = Response("update_user", access_token, user_data, 204, "",
                                  current_user.user, user_id)
              /\ UNCHANGED <<next_user_id, issued, next_reset_token, consumed,
                             contentVars, now, pending, restore, served>>

update_user_email(access_token, user_id, email) ==
    LET request == [email |-> email]
        current_user == get_current_user(access_token) IN
    IF current_user.status # 200
    THEN Refuse("update_user_email", access_token, request, current_user.status,
                current_user.detail, 0, user_id)
    ELSE IF current_user.user # user_id
    THEN Refuse("update_user_email", access_token, request, 403,
                "Not authorized to modify this user", current_user.user, user_id)
    ELSE IF user_id \notin ExistingUsers
    THEN Refuse("update_user_email", access_token, request, 404, "User not found",
                current_user.user, user_id)
    ELSE LET user == [users[user_id] EXCEPT !.email = email] IN
         IF IntegrityError(user_id, user)
         THEN Refuse("update_user_email", access_token, request, 400,
                     "Email already exists", current_user.user, user_id)
         ELSE /\ users' = [users EXCEPT ![user_id] = user]
              /\ last' = Response("update_user_email", access_token, request, 204, "",
                                  current_user.user, user_id)
              /\ UNCHANGED <<next_user_id, issued, next_reset_token, consumed,
                             contentVars, now, pending, restore, served>>

\* The two halves of update_user and of update_user_email when other
\* requests are served between the query of the row and the commit.
\* columns: the attributes whose value setattr changed, which are the ones
\* the UPDATE of the flush sets
Modified(old, new) ==
    {c \in {"username", "email"} : new[c] # old[c]}
    \cup IF new.hashed_password # old.hashed_password
         THEN {"hashed_password"} ELSE {}

\* the row the UPDATE leaves: the modified columns over the current row
Flushed(current, columns, row) ==
    [current EXCEPT
        !.username = IF "username" \in columns THEN row.username ELSE @,
        !.email = IF "email" \in columns THEN row.email ELSE @,
        !.hashed_password = IF "hashed_password" \in columns
                            THEN row.hashed_password ELSE @]

\* update_user up to the last setattr
begin_update_user(access_token, user_id, user_data, salt) ==
    LET current_user == get_current_user(access_token) IN
    /\ pending = NoPending
    /\ IF current_user.status # 200
       THEN Refuse("update_user", access_token, user_data, current_user.status,
                   current_user.detail, 0, user_id)
       ELSE IF current_user.user # user_id
       THEN Refuse("update_user", access_token, user_data, 403,
                   "Not authorized to modify this user",
                   current_user.user, user_id)
       ELSE IF user_id \notin ExistingUsers
       THEN Refuse("update_user", access_token, user_data, 404, "User not found",
                   current_user.user, user_id)
       ELSE IF user_data.password = None
       THEN Refuse("update_user", access_token, user_data, 500,
                   "internal_server_error_key", current_user.user, user_id)
       ELSE LET user == ApplyUserUpdate(users[user_id], user_data, salt) IN
            /\ user_data.password # Unset
                  => salt # users[user_id].hashed_password.salt
            /\ pending' = [op |-> "update_user", access_token |-> access_token,
                           request |-> user_data, caller |-> current_user.user,
                           user_id |-> user_id,
                           columns |-> Modified(users[user_id], user),
                           row |-> user,
                           detail |-> "Username or email already exists"]
            /\ UNCHANGED <<accountVars, contentVars, now, restore, served, last>>

\* update_user_email up to `user.email = email_data.email`
begin_update_user_email(access_token, user_id, email) ==
    LET request == [email |-> email]
        current_user == get_current_user(access_token) IN
    /\ pending = NoPending
    /\ IF current_user.status # 200
       THEN Refuse("update_user_email", access_token, request,
                   current_user.status, current_user.detail, 0, user_id)
       ELSE IF current_user.user # user_id
       THEN Refuse("update_user_email", access_token, request, 403,
                   "Not authorized to modify this user",
                   current_user.user, user_id)
       ELSE IF user_id \notin ExistingUsers
       THEN Refuse("update_user_email", access_token, request, 404,
                   "User not found", current_user.user, user_id)
       ELSE LET user == [users[user_id] EXCEPT !.email = email] IN
            /\ pending' = [op |-> "update_user_email",
                           access_token |-> access_token,
                           request |-> request, caller |-> current_user.user,
                           user_id |-> user_id,
                           columns |-> Modified(users[user_id], user),
                           row |-> user,
                           detail |-> "Email already exists"]
            /\ UNCHANGED <<accountVars, contentVars, now, restore, served, last>>

\* database_session.commit() of the pending request and what follows it:
\* no UPDATE when no column was modified; StaleDataError (a SQLAlchemyError,
\* answered 500) when the row has been deleted meanwhile; IntegrityError
\* (rollback, 400) when the UPDATE breaks a constraint
\* commit() storing the password hash of the request although the UPDATE
\* breaks a constraint
commit_update_KeepsPasswordOnConflict ==
    /\ pending # NoPending
    /\ pending' = NoPending
    /\ LET id == pending.user_id
           Answer(status, detail) ==
               Response(pending.op, pending.access_token, pending.request,
                        status, detail, pending.caller, id)
       IN IF pending.columns = {}
          THEN /\ last' = Answer(204, "")
               /\ UNCHANGED <<accountVars, contentVars, now, restore, served>>
          ELSE IF id \notin ExistingUsers
          THEN /\ last' = Answer(500, "database_error")
               /\ UNCHANGED <<accountVars, contentVars, now, restore, served>>
          ELSE LET user == Flushed(users[id], pending.columns, pending.row) IN
               IF IntegrityError(id, user)
               THEN /\ last' = Answer(400, pending.detail)
                    /\ users' = [users EXCEPT ![id].hashed_password = user.hashed_password]
                    /\ UNCHANGED <<next_user_id, issued, next_reset_token,
                                   consumed, contentVars, now, restore, served>>
               ELSE /\ users' = [users EXCEPT ![id] = user]
                    /\ last' = Answer(204, "")
                    /\ UNCHANGED <<next_user_id, issued, next_reset_token,
                                   consumed, contentVars, now, restore, served>>

commit_update ==
    /\ pending # NoPending
    /\ pending' = NoPending
    /\ LET id == pending.user_id
           Answer(status, detail) ==
               Response(pending.op, pending.access_token, pending.request,
                        status, detail, pending.caller, id)
       IN IF pending.columns = {}
          THEN /\ last' = Answer(204, "")
               /\ UNCHANGED <<accountVars, contentVars, now, restore, served>>
          ELSE IF id \notin ExistingUsers
          THEN /\ last' = Answer(500, "database_error")
               /\ UNCHANGED <<accountVars, contentVars, now, restore, served>>
          ELSE LET user == Flushed(users[id], pending.columns, pending.row) IN
               IF IntegrityError(id, user)
               THEN /\ last' = Answer(400, pending.detail)
                    /\ UNCHANGED <<accountVars, contentVars, now, restore, served>>
               ELSE /\ users' = [users EXCEPT ![id] = user]
                    /\ last' = Answer(204, "")
                    /\ UNCHANGED <<next_user_id, issued, next_reset_token,
                                   consumed, contentVars, now, restore, served>>

update_user_password(access_token, user_id, password, salt) ==
    LET request == [password |-> password]
        current_user == get_current_user(access_token) IN
    IF current_user.status # 200
    THEN Refuse("update_user_password", access_token, request, current_user.status,
                current_user.detail, 0, user_id)
    ELSE IF current_user.user # user_id
    THEN Refuse("update_user_password", access_token, request, 403,
                "Not authorized to modify this user", current_user.user, user_id)
    ELSE IF user_id \notin ExistingUsers
    THEN Refuse("update_user_password", access_token, request, 404, "User not found",
                current_user.user, user_id)
    ELSE /\ salt # users[user_id].hashed_password.salt
         /\ users' = [users EXCEPT
                        ![user_id].hashed_password = hash_password(password, salt),
                        ![user_id].password_token = NoToken]
         /\ last' = Response("update_user_password", access_token, request, 204, "",
                             current_user.user, user_id)
         /\ UNCHANGED <<next_user_id, issued, next_reset_token, consumed,
                        contentVars, now, pending, restore, served>>

\* update_user_banner without its "Not authorized" check
update_user_banner_NoOwnerCheck(access_token, user_id, banner_link) ==
    LET request == [banner_link |-> banner_link]
        current_user == get_current_user(access_token) IN
    IF current_user.status # 200
    THEN Refuse("update_user_banner", access_token, request, current_user.status,
                current_user.detail, 0, user_id)
    ELSE IF user_id \notin ExistingUsers
    THEN Refuse("update_user_banner", access_token, request, 404, "User not found",
                current_user.user, user_id)
    ELSE /\ users' = [users EXCEPT ![user_id].profile_banner = banner_link]
         /\ last' = Response("update_user_banner", access_token, request, 204, "",
                             current_user.user, user_id)
         /\ UNCHANGED <<next_user_id, issued, next_reset_token, consumed,
                        contentVars, now, pending, restore, served>>

update_user_banner(access_token, user_id, banner_link) ==
    LET request == [banner_link |-> banner_link]
        current_user == get_current_user(access_token) IN
    IF current_user.status # 200
    THEN Refuse("update_user_banner", access_token, request, current_user.status,
                current_user.detail, 0, user_id)
    ELSE IF current_user.user # user_id
    THEN Refuse("update_user_banner", access_token, request, 403,
                "Not authorized to modify this user", current_user.user, user_id)
    ELSE IF user_id \notin ExistingUsers
    THEN Refuse("update_user_banner", access_token, request, 404, "User not found",
                current_user.user, user_id)
    ELSE /\ users' = [users EXCEPT ![user_id].profile_banner = banner_link]
         /\ last' = Response("update_user_banner", access_token, request, 204, "",
                             current_user.user, user_id)
         /\ UNCHANGED <<next_user_id, issued, next_reset_token, consumed,
                        contentVars, now, pending, restore, served>>

\* delete_user without the cascade to the views of the user
delete_user_KeepsViews(access_token, user_id) ==
    LET current_user == get_current_user(access_token) IN
    IF current_user.status # 200
    THEN Refuse("delete_user", access_token, NoRequest, current_user.status,
                current_user.detail, 0, user_id)
    ELSE IF current_user.user # user_id
    THEN Refuse("delete_user", access_token, NoRequest, 403,
                "Not authorized to delete this user", current_user.user, user_id)
    ELSE IF user_id \notin ExistingUsers
    THEN Refuse("delete_user", access_token, NoRequest, 404, "User not found",
                current_user.user, user_id)
    ELSE LET gone == WatchlistsOf({user_id}) IN
         /\ users' = Delete(users, {user_id})
         /\ watchlists' = Delete(watchlists, gone)
         /\ medias' = Delete(medias, MediasOf(gone))
         /\ views' = views
         /\ last' = Response("delete_user", access_token, NoRequest, 204, "",
                             current_user.user, user_id)
         /\ UNCHANGED <<next_user_id, issued, next_reset_token, consumed,
                        next_watchlist_id, next_media_id, next_view_id, now, pending, restore, served>>

delete_user(access_token, user_id) ==
    LET current_user == get_current_user(access_token) IN
    IF current_user.status # 200
    THEN Refuse("delete_user", access_token, NoRequest, current_user.status,
                current_user.detail, 0, user_id)
    ELSE IF current_user.user # user_id
    THEN Refuse("delete_user", access_token, NoRequest, 403,
                "Not authorized to delete this user", current_user.user, user_id)
    ELSE IF user_id \notin ExistingUsers
    THEN Refuse("delete_user", access_token, NoRequest, 404, "User not found",
                current_user.user, user_id)
    ELSE LET gone == WatchlistsOf({user_id}) IN
         /\ users' = Delete(users, {user_id})
         /\ watchlists' = Delete(watchlists, gone)
         /\ medias' = Delete(medias, MediasOf(gone))
         /\ views' = Delete(views, ViewsOf({user_id}))
         /\ last' = Response("delete_user", access_token, NoRequest, 204, "",
                             current_user.user, user_id)
         /\ UNCHANGED <<next_user_id, issued, next_reset_token, consumed,
                        next_watchlist_id, next_media_id, next_view_id, now, pending, restore, served>>

----------------------------------------------------------------------------
(* app/api/v1/watchlists.py *)

\* Media.genre_ids.any(genre): genre = ANY(genre_ids)
GenreIdsAny(genre_ids, genre) == \E i \in 1..Len(genre_ids) : genre_ids[i] = genre

\* get_user_watchlists is served in steps, other requests being served in
\* between (the session runs at the default isolation level of the database,
\* where every statement reads what is committed when it runs).  This is its
\* first query: the watchlists of the user, each with count(Media.id) over
\* the outer join.  Without a watchlist the loop is not entered and the
\* empty list is returned.
get_user_watchlists(user_id) ==
    LET request == [user_id |-> user_id]
        rows == {[id |-> w, title |-> watchlists[w].title,
                  author_id |-> watchlists[w].author_id,
                  medias_count |-> Cardinality(MediasOf({w}))] :
                 w \in WatchlistsOf({user_id})} IN
    /\ pending = NoPending
    /\ IF rows = {}
       THEN /\ last' = [Response("get_user_watchlists", NoCookie, request, 200, "",
                                 0, user_id)
                           EXCEPT !.body = [watchlists |-> {}]]
            /\ UNCHANGED <<accountVars, contentVars, now, pending, restore, served>>
       ELSE /\ pending' = [op |-> "get_user_watchlists", request |-> request,
                           user_id |-> user_id, rows |-> rows, result |-> {}]
            /\ UNCHANGED <<accountVars, contentVars, now, restore, served, last>>

\* one turn of the loop of get_user_watchlists: the query of the media of
\* the next watchlist of the first result and the WatchlistResponse built
\* from both; after the last turn the list is returned
get_user_watchlists_medias ==
    /\ pending # NoPending
    /\ pending.op = "get_user_watchlists"
    /\ \E watchlist_data \in pending.rows :
          LET listed == {[id |-> m, tmdb_id |-> medias[m].tmdb_id] :
                         m \in MediasOf({watchlist_data.id})}
              watchlist_response ==
                  [id |-> watchlist_data.id, title |-> watchlist_data.title,
                   author_id |-> watchlist_data.author_id,
                   medias |-> listed,
                   medias_count |-> watchlist_data.medias_count]
              result == pending.result \cup {watchlist_response} IN
          IF pending.rows = {watchlist_data}
          THEN /\ pending' = NoPending
               /\ last' = [Response("get_user_watchlists", NoCookie, pending.request,
                                    200, "", 0, pending.user_id)
                              EXCEPT !.body = [watchlists |-> result]]
               /\ UNCHANGED <<accountVars, contentVars, now, restore, served>>
          ELSE /\ pending' = [pending EXCEPT !.rows = @ \ {watchlist_data},
                                             !.result = result]
               /\ UNCHANGED <<accountVars, contentVars, now, restore, served, last>>

\* MediaResponse.model_validate(media)
MediaResponse(media_id) ==
    [id |-> media_id, tmdb_id |-> medias[media_id].tmdb_id,
     genre_ids |-> medias[media_id].genre_ids,
     watchlist_id |-> medias[media_id].watchlist_id]

\* get_watchlist_details counting the media the genre filter lets through
get_watchlist_details_CountsFiltered(watchlist_id, genre) ==
    LET request == [genre |-> genre] IN
    IF watchlist_id \notin ExistingWatchlists
    THEN Refuse("get_watchlist_details", NoCookie, request, 404, "Watchlist not found",
                0, watchlist_id)
    ELSE LET in_watchlist == {m \in ExistingMedias : medias[m].watchlist_id = watchlist_id}
             found == IF genre # NoGenre
                      THEN {m \in in_watchlist : GenreIdsAny(medias[m].genre_ids, genre)}
                      ELSE in_watchlist IN
         /\ last' = [Response("get_watchlist_details", NoCookie, request, 200, "", 0,
                              watchlist_id)
                        EXCEPT
                        !.body = [title |-> watchlists[watchlist_id].title,
                                  medias |-> {MediaResponse(m) : m \in found},
                                  medias_count |-> Cardinality(found)]]
         /\ UNCHANGED <<accountVars, contentVars, now, pending, restore, served>>

\* the media of the response stand for a list without a defined order
\* (the query has no ORDER BY); its length is the number of its elements
get_watchlist_details(watchlist_id, genre) ==
    LET request == [genre |-> genre] IN
    IF watchlist_id \notin ExistingWatchlists
    THEN Refuse("get_watchlist_details", NoCookie, request, 404, "Watchlist not found",
                0, watchlist_id)
    ELSE LET in_watchlist == {m \in ExistingMedias : medias[m].watchlist_id = watchlist_id}
             found == IF genre # NoGenre
                      THEN {m \in in_watchlist : GenreIdsAny(medias[m].genre_ids, genre)}
                      ELSE in_watchlist
             total_medias_count == Cardinality(in_watchlist) IN
         /\ last' = [Response("get_watchlist_details", NoCookie, request, 200, "", 0,
                              watchlist_id)
                        EXCEPT
                        !.body = [title |-> watchlists[watchlist_id].title,
                                  medias |-> {MediaResponse(m) : m \in found},
                                  medias_count |-> total_medias_count]]
         /\ UNCHANGED <<accountVars, contentVars, now, pending, restore, served>>

create_watchlist(access_token, watchlist_data) ==
    LET current_user == get_current_user(access_token) IN
    IF current_user.status # 200
    THEN Refuse("create_watchlist", access_token, watchlist_data, current_user.status,
                current_user.detail, 0, 0)
    ELSE /\ next_watchlist_id <= MaxWatchlists
         /\ watchlists' = Insert(watchlists, next_watchlist_id,
                                 [title |-> watchlist_data.title,
                                  author_id |-> current_user.user])
         /\ next_watchlist_id' = next_watchlist_id + 1
         /\ last' = Response("create_watchlist", access_token, watchlist_data, 201,
                             "Watchlist created successfully",
                             current_user.user, next_watchlist_id)
         /\ UNCHANGED <<accountVars, medias, next_media_id, views, next_view_id, now, pending, restore, served>>

update_watchlist(access_token, watchlist_id, watchlist_data) ==
    LET current_user == get_current_user(access_token) IN
    IF current_user.status # 200
    THEN Refuse("update_watchlist", access_token, watchlist_data, current_user.status,
                current_user.detail, 0, watchlist_id)
    ELSE IF watchlist_id \notin ExistingWatchlists
    THEN Refuse("update_watchlist", access_token, watchlist_data, 404, "Watchlist not found",
                current_user.user, watchlist_id)
    ELSE IF watchlists[watchlist_id].author_id # current_user.user
    THEN Refuse("update_watchlist", access_token, watchlist_data, 403,
                "Not authorized to modify this watchlist",
                current_user.user, watchlist_id)
    ELSE IF watchlist_data.title = None
    THEN \* title is nullable=False: the commit raises IntegrityError, which
         \* this handler does not catch (sqlalchemy_exception_handler)
         Refuse("update_watchlist", access_token, watchlist_data, 500, "database_error",
                current_user.user, watchlist_id)
    ELSE /\ watchlists' =
                IF watchlist_data.title = Unset THEN watchlists
                ELSE [watchlists EXCEPT ![watchlist_id].title = watchlist_data.title]
         /\ last' = Response("update_watchlist", access_token, watchlist_data, 204, "",
                             current_user.user, watchlist_id)
         /\ UNCHANGED <<accountVars, next_watchlist_id, medias, next_media_id,
                        views, next_view_id, now, pending, restore, served>>

delete_watchlist(access_token, watchlist_id) ==
    LET current_user == get_current_user(access_token) IN
    IF current_user.status # 200
    THEN Refuse("delete_watchlist", access_token, NoRequest, current_user.status,
                current_user.detail, 0, watchlist_id)
    ELSE IF watchlist_id \notin ExistingWatchlists
    THEN Refuse("delete_watchlist", access_token, NoRequest, 404, "Watchlist not found",
                current_user.user, watchlist_id)
    ELSE IF watchlists[watchlist_id].author_id # current_user.user
    THEN Refuse("delete_watchlist", access_token, NoRequest, 403,
                "Not authorized to delete this watchlist",
                current_user.user, watchlist_id)
    ELSE /\ watchlists' = Delete(watchlists, {watchlist_id})
         /\ medias' = Delete(medias, MediasOf({watchlist_id}))
         /\ last' = Response("delete_watchlist", access_token, NoRequest, 204, "",
                             current_user.user, watchlist_id)
         /\ UNCHANGED <<accountVars, next_watchlist_id, next_media_id,
                        views, next_view_id, now, pending, restore, served>>

----------------------------------------------------------------------------
(* app/api/v1/medias.py *)

add_media_to_watchlist(access_token, media_data) ==
    LET current_user == get_current_user(access_token) IN
    IF current_user.status # 200
    THEN Refuse("add_media_to_watchlist", access_token, media_data, current_user.status,
                current_user.detail, 0, 0)
    ELSE IF media_data.watchlist_id \notin ExistingWatchlists
    THEN Refuse("add_media_to_watchlist", access_token, media_data, 404,
                "Watchlist not found",
                current_user.user, 0)
    ELSE IF watchlists[media_data.watchlist_id].author_id # current_user.user
    THEN Refuse("add_media_to_watchlist", access_token, media_data, 403,
                "Not authorized to add media to this watchlist", current_user.user, 0)
    ELSE /\ next_media_id <= MaxMedias
         /\ medias' = Insert(medias, next_media_id,
                             [tmdb_id |-> media_data.tmdb_id,
                              genre_ids |-> media_data.genre_ids,
                              watchlist_id |-> media_data.watchlist_id])
         /\ next_media_id' = next_media_id + 1
         /\ last' = Response("add_media_to_watchlist", access_token, media_data, 201,
                             "Media added successfully",
                             current_user.user, next_media_id)
         /\ UNCHANGED <<accountVars, watchlists, next_watchlist_id,
                        views, next_view_id, now, pending, restore, served>>

\* update_media without the ownership check on the destination watchlist
update_media_AnyDestination(access_token, media_id, media_data) ==
    LET current_user == get_current_user(access_token) IN
    IF current_user.status # 200
    THEN Refuse("update_media", access_token, media_data, current_user.status,
                current_user.detail, 0, media_id)
    ELSE IF media_id \notin ExistingMedias
    THEN Refuse("update_media", access_token, media_data, 404, "Media not found",
                current_user.user, media_id)
    ELSE IF watchlists[medias[media_id].watchlist_id].author_id # current_user.user
    THEN Refuse("update_media", access_token, media_data, 403,
                "Not authorized to modify this media",
                current_user.user, media_id)
    ELSE IF /\ media_data.watchlist_id # NoId
            /\ media_data.watchlist_id \notin ExistingWatchlists
    THEN Refuse("update_media", access_token, media_data, 403,
                "Not authorized to move media to this watchlist",
                current_user.user, media_id)
    ELSE /\ medias' =
                IF media_data.watchlist_id = NoId THEN medias
                ELSE [medias EXCEPT ![media_id].watchlist_id = media_data.watchlist_id]
         /\ last' = Response("update_media", access_token, media_data, 204, "",
                             current_user.user, media_id)
         /\ UNCHANGED <<accountVars, watchlists, next_watchlist_id, next_media_id,
                        views, next_view_id, now, pending, restore, served>>

update_media(access_token, media_id, media_data) ==
    LET current_user == get_current_user(access_token) IN
    IF current_user.status # 200
    THEN Refuse("update_media", access_token, media_data, current_user.status,
                current_user.detail, 0, media_id)
    ELSE IF media_id \notin ExistingMedias
    THEN Refuse("update_media", access_token, media_data, 404, "Media not found",
                current_user.user, media_id)
    ELSE IF watchlists[medias[media_id].watchlist_id].author_id # current_user.user
    THEN Refuse("update_media", access_token, media_data, 403,
                "Not authorized to modify this media",
                current_user.user, media_id)
    ELSE IF /\ media_data.watchlist_id # NoId
            /\ \/ media_data.watchlist_id \notin ExistingWatchlists
               \/ watchlists[media_data.watchlist_id].author_id # current_user.user
    THEN Refuse("update_media", access_token, media_data, 403,
                "Not authorized to move media to this watchlist",
                current_user.user, media_id)
    ELSE /\ medias' =
                IF media_data.watchlist_id = NoId THEN medias
                ELSE [medias EXCEPT ![media_id].watchlist_id = media_data.watchlist_id]
         /\ last' = Response("update_media", access_token, media_data, 204, "",
                             current_user.user, media_id)
         /\ UNCHANGED <<accountVars, watchlists, next_watchlist_id, next_media_id,
                        views, next_view_id, now, pending, restore, served>>

delete_media(access_token, media_id) ==
    LET current_user == get_current_user(access_token) IN
    IF current_user.status # 200
    THEN Refuse("delete_media", access_token, NoRequest, current_user.status,
                current_user.detail, 0, media_id)
    ELSE IF media_id \notin ExistingMedias
    THEN Refuse("delete_media", access_token, NoRequest, 404, "Media not found",
                current_user.user, media_id)
    ELSE IF watchlists[medias[media_id].watchlist_id].author_id # current_user.user
    THEN Refuse("delete_media", access_token, NoRequest, 403,
                "Not authorized to delete this media",
                current_user.user, media_id)
    ELSE /\ medias' = Delete(medias, {media_id})
         /\ last' = Response("delete_media", access_token, NoRequest, 204, "",
                             current_user.user, media_id)
         /\ UNCHANGED <<accountVars, watchlists, next_watchlist_id, next_media_id,
                        views, next_view_id, now, pending, restore, served>>

----------------------------------------------------------------------------
(* app/api/v1/views.py *)

\* add_view without the comparison of viewer_id with the caller
add_view_AnyViewer(access_token, view_data) ==
    LET current_user == get_current_user(access_token) IN
    IF current_user.status # 200
    THEN Refuse("add_view", access_token, view_data, current_user.status,
                current_user.detail, 0, 0)
    ELSE /\ next_view_id <= MaxViews
         /\ views' = Insert(views, next_view_id,
                            [tmdb_id |-> view_data.tmdb_id,
                             media_type |-> view_data.media_type,
                             release_year |-> view_data.release_year,
                             viewer_id |-> view_data.viewer_id])
         /\ next_view_id' = next_view_id + 1
         /\ last' = Response("add_view", access_token, view_data, 201,
                             "View added successfully",
                             current_user.user, next_view_id)
         /\ UNCHANGED <<accountVars, watchlists, next_watchlist_id, medias,
                        next_media_id, now, pending, restore, served>>

add_view(access_token, view_data) ==
    LET current_user == get_current_user(access_token) IN
    IF current_user.status # 200
    THEN Refuse("add_view", access_token, view_data, current_user.status,
                current_user.detail, 0, 0)
    ELSE IF view_data.viewer_id # current_user.user
    THEN Refuse("add_view", access_token, view_data, 403,
                "Not authorized to add view for this user",
                current_user.user, 0)
    ELSE /\ next_view_id <= MaxViews
         /\ views' = Insert(views, next_view_id,
                            [tmdb_id |-> view_data.tmdb_id,
                             media_type |-> view_data.media_type,
                             release_year |-> view_data.release_year,
                             viewer_id |-> view_data.viewer_id])
         /\ next_view_id' = next_view_id + 1
         /\ last' = Response("add_view", access_token, view_data, 201,
                             "View added successfully",
                             current_user.user, next_view_id)
         /\ UNCHANGED <<accountVars, watchlists, next_watchlist_id, medias,
                        next_media_id, now, pending, restore, served>>

\* delete_view deleting and committing before it compares the viewer with the caller
delete_view_DeletesBeforeOwnerCheck(access_token, view_id) ==
    LET current_user == get_current_user(access_token) IN
    IF current_user.status # 200
    THEN Refuse("delete_view", access_token, NoRequest, current_user.status,
                current_user.detail, 0, view_id)
    ELSE IF view_id \notin ExistingViews
    THEN Refuse("delete_view", access_token, NoRequest, 404, "View not found",
                current_user.user, view_id)
    ELSE /\ views' = Delete(views, {view_id})
         /\ last' = IF views[view_id].viewer_id # current_user.user
                    THEN Response("delete_view", access_token, NoRequest, 403,
                                  "Not authorized to delete this view",
                                  current_user.user, view_id)
                    ELSE Response("delete_view", access_token, NoRequest, 204, "",
                                  current_user.user, view_id)
         /\ UNCHANGED <<accountVars, watchlists, next_watchlist_id, medias,
                        next_media_id, next_view_id, now, pending, restore, served>>

delete_view(access_token, view_id) ==
    LET current_user == get_current_user(access_token) IN
    IF current_user.status # 200
    THEN Refuse("delete_view", access_token, NoRequest, current_user.status,
                current_user.detail, 0, view_id)
    ELSE IF view_id \notin ExistingViews
    THEN Refuse("delete_view", access_token, NoRequest, 404, "View not found",
                current_user.user, view_id)
    ELSE IF views[view_id].viewer_id # current_user.user
    THEN Refuse("delete_view", access_token, NoRequest, 403,
                "Not authorized to delete this view",
                current_user.user, view_id)
    ELSE /\ views' = Delete(views, {view_id})
         /\ last' = Response("delete_view", access_token, NoRequest, 204, "",
                             current_user.user, view_id)
         /\ UNCHANGED <<accountVars, watchlists, next_watchlist_id, medias,
                        next_media_id, next_view_id, now, pending, restore, served>>

----------------------------------------------------------------------------
(* The handlers that insert or move a row, in two halves: other requests are
   served between the queries of the handler and its commit.  The session
   has autoflush=False, so the INSERT or UPDATE is sent by commit(), where
   the database checks the foreign key of the row against the committed
   parents (ForeignKey(..., ondelete="CASCADE") of models/watchlist.py,
   models/media.py and models/view.py). *)

\* create_watchlist up to database_session.add(new_watchlist)
begin_create_watchlist(access_token, watchlist_data) ==
    LET current_user == get_current_user(access_token) IN
    /\ pending = NoPending
    /\ IF current_user.status # 200
       THEN Refuse("create_watchlist", access_token, watchlist_data,
                   current_user.status, current_user.detail, 0, 0)
       ELSE /\ next_watchlist_id <= MaxWatchlists
            /\ pending' = [op |-> "create_watchlist", access_token |-> access_token,
                           request |-> watchlist_data, caller |-> current_user.user,
                           target |-> 0,
                           row |-> [title |-> watchlist_data.title,
                                    author_id |-> current_user.user]]
            /\ UNCHANGED <<accountVars, contentVars, now, restore, served, last>>

\* add_media_to_watchlist up to database_session.add(new_media)
begin_add_media_to_watchlist(access_token, media_data) ==
    LET current_user == get_current_user(access_token) IN
    /\ pending = NoPending
    /\ IF current_user.status # 200
       THEN Refuse("add_media_to_watchlist", access_token, media_data,
                   current_user.status, current_user.detail, 0, 0)
       ELSE IF media_data.watchlist_id \notin ExistingWatchlists
       THEN Refuse("add_media_to_watchlist", access_token, media_data, 404,
                   "Watchlist not found", current_user.user, 0)
       ELSE IF watchlists[media_data.watchlist_id].author_id # current_user.user
       THEN Refuse("add_media_to_watchlist", access_token, media_data, 403,
                   "Not authorized to add media to this watchlist",
                   current_user.user, 0)
       ELSE /\ next_media_id <= MaxMedias
            /\ pending' = [op |-> "add_media_to_watchlist",
                           access_token |-> access_token,
                           request |-> media_data, caller |-> current_user.user,
                           target |-> 0,
                           row |-> [tmdb_id |-> media_data.tmdb_id,
                                    genre_ids |-> media_data.genre_ids,
                                    watchlist_id |-> media_data.watchlist_id]]
            /\ UNCHANGED <<accountVars, contentVars, now, restore, served, last>>

\* update_media up to `media.watchlist_id = media_data.watchlist_id`
begin_update_media(access_token, media_id, media_data) ==
    LET current_user == get_current_user(access_token) IN
    /\ pending = NoPending
    /\ IF current_user.status # 200
       THEN Refuse("update_media", access_token, media_data, current_user.status,
                   current_user.detail, 0, media_id)
       ELSE IF media_id \notin ExistingMedias
       THEN Refuse("update_media", access_token, media_data, 404, "Media not found",
                   current_user.user, media_id)
       ELSE IF watchlists[medias[media_id].watchlist_id].author_id # current_user.user
       THEN Refuse("update_media", access_token, media_data, 403,
                   "Not authorized to modify this media",
                   current_user.user, media_id)
       ELSE IF /\ media_data.watchlist_id # NoId
               /\ \/ media_data.watchlist_id \notin ExistingWatchlists
                  \/ watchlists[media_data.watchlist_id].author_id # current_user.user
       THEN Refuse("update_media", access_token, media_data, 403,
                   "Not authorized to move media to this watchlist",
                   current_user.user, media_id)
       ELSE /\ pending' = [op |-> "update_media", access_token |-> access_token,
                           request |-> media_data, caller |-> current_user.user,
                           target |-> media_id,
                           row |-> IF media_data.watchlist_id = NoId
                                   THEN medias[media_id]
                                   ELSE [medias[media_id] EXCEPT
                                            !.watchlist_id = media_data.watchlist_id]]
            /\ UNCHANGED <<accountVars, contentVars, now, restore, served, last>>

\* add_view up to database_session.add(new_view)
begin_add_view(access_token, view_data) ==
    LET current_user == get_current_user(access_token) IN
    /\ pending = NoPending
    /\ IF current_user.status # 200
       THEN Refuse("add_view", access_token, view_data, current_user.status,
                   current_user.detail, 0, 0)
       ELSE IF view_data.viewer_id # current_user.user
       THEN Refuse("add_view", access_token, view_data, 403,
                   "Not authorized to add view for this user",
                   current_user.user, 0)
       ELSE /\ next_view_id <= MaxViews
            /\ pending' = [op |-> "add_view", access_token |-> access_token,
                           request |-> view_data, caller |-> current_user.user,
                           target |-> 0,
                           row |-> [tmdb_id |-> view_data.tmdb_id,
                                    media_type |-> view_data.media_type,
                                    release_year |-> view_data.release_year,
                                    viewer_id |-> view_data.viewer_id]]
            /\ UNCHANGED <<accountVars, contentVars, now, restore, served, last>>

\* the foreign key of the row the pending request writes names no committed
\* parent row
ForeignKeyViolation ==
    CASE pending.op = "create_watchlist" -> pending.row.author_id \notin ExistingUsers
      [] pending.op \in {"add_media_to_watchlist", "update_media"} ->
             pending.row.watchlist_id \notin ExistingWatchlists
      [] pending.op = "add_view" -> pending.row.viewer_id \notin ExistingUsers

\* commit() writing the row without any foreign key on the tables
commit_content_NoForeignKeys ==
    /\ pending # NoPending
    /\ pending.op \in {"create_watchlist", "add_media_to_watchlist",
                       "update_media", "add_view"}
    /\ pending' = NoPending
    /\ LET Answer(status, detail, target) ==
               Response(pending.op, pending.access_token, pending.request,
                        status, detail, pending.caller, target)
       IN CASE pending.op = "create_watchlist" ->
                 /\ watchlists' = Insert(watchlists, next_watchlist_id, pending.row)
                 /\ next_watchlist_id' = next_watchlist_id + 1
                 /\ last' = Answer(201, "Watchlist created successfully",
                                   next_watchlist_id)
                 /\ UNCHANGED <<accountVars, medias, next_media_id, views,
                                next_view_id, now, restore, served>>
            [] pending.op = "add_media_to_watchlist" ->
                 /\ medias' = Insert(medias, next_media_id, pending.row)
                 /\ next_media_id' = next_media_id + 1
                 /\ last' = Answer(201, "Media added successfully", next_media_id)
                 /\ UNCHANGED <<accountVars, watchlists, next_watchlist_id, views,
                                next_view_id, now, restore, served>>
            [] pending.op = "update_media" ->
                 IF pending.target \notin ExistingMedias
                 THEN /\ last' = Answer(500, "database_error", pending.target)
                      /\ UNCHANGED <<accountVars, contentVars, now, restore, served>>
                 ELSE /\ medias' = [medias EXCEPT ![pending.target] = pending.row]
                      /\ last' = Answer(204, "", pending.target)
                      /\ UNCHANGED <<accountVars, watchlists, next_watchlist_id,
                                     next_media_id, views, next_view_id, now, restore, served>>
            [] pending.op = "add_view" ->
                 /\ views' = Insert(views, next_view_id, pending.row)
                 /\ next_view_id' = next_view_id + 1
                 /\ last' = Answer(201, "View added successfully", next_view_id)
                 /\ UNCHANGED <<accountVars, watchlists, next_watchlist_id, medias,
                                next_media_id, now, restore, served>>

\* database_session.commit() of the pending request and what follows it.
\* update_media: no UPDATE when watchlist_id was not modified; StaleDataError
\* when the media row has been deleted meanwhile.  A row whose foreign key
\* names no parent is rejected with IntegrityError.  Both are SQLAlchemyError,
\* which no handler catches: sqlalchemy_exception_handler answers 500 and
\* the session is closed without a commit.
commit_content ==
    /\ pending # NoPending
    /\ pending.op \in {"create_watchlist", "add_media_to_watchlist",
                       "update_media", "add_view"}
    /\ pending' = NoPending
    /\ LET Answer(status, detail, target) ==
               Response(pending.op, pending.access_token, pending.request,
                        status, detail, pending.caller, target)
           Unmodified ==
               /\ pending.op = "update_media"
               /\ pending.target \in ExistingMedias
               /\ medias[pending.target] = pending.row
           Stale == pending.op = "update_media" /\ pending.target \notin ExistingMedias
       IN IF Unmodified
          THEN /\ last' = Answer(204, "", pending.target)
               /\ UNCHANGED <<accountVars, contentVars, now, restore, served>>
          ELSE IF Stale \/ ForeignKeyViolation
          THEN /\ last' = Answer(500, "database_error", pending.target)
               /\ UNCHANGED <<accountVars, contentVars, now, restore, served>>
          ELSE CASE pending.op = "create_watchlist" ->
                 /\ watchlists' = Insert(watchlists, next_watchlist_id, pending.row)
                 /\ next_watchlist_id' = next_watchlist_id + 1
                 /\ last' = Answer(201, "Watchlist created successfully",
                                   next_watchlist_id)
                 /\ UNCHANGED <<accountVars, medias, next_media_id, views,
                                next_view_id, now, restore, served>>
            [] pending.op = "add_media_to_watchlist" ->
                 /\ medias' = Insert(medias, next_media_id, pending.row)
                 /\ next_media_id' = next_media_id + 1
                 /\ last' = Answer(201, "Media added successfully", next_media_id)
                 /\ UNCHANGED <<accountVars, watchlists, next_watchlist_id, views,
                                next_view_id, now, restore, served>>
            [] pending.op = "update_media" ->
                 /\ medias' = [medias EXCEPT ![pending.target] = pending.row]
                 /\ last' = Answer(204, "", pending.target)
                 /\ UNCHANGED <<accountVars, watchlists, next_watchlist_id,
                                next_media_id, views, next_view_id, now, restore, served>>
            [] pending.op = "add_view" ->
                 /\ views' = Insert(views, next_view_id, pending.row)
                 /\ next_view_id' = next_view_id + 1
                 /\ last' = Answer(201, "View added successfully", next_view_id)
                 /\ UNCHANGED <<accountVars, watchlists, next_watchlist_id, medias,
                                next_media_id, now, restore, served>>

----------------------------------------------------------------------------
(* The clock *)

Tick ==
    /\ now < MaxNow
    /\ now' = now + 1
    /\ UNCHANGED <<accountVars, contentVars, pending, restore, served, last>>

----------------------------------------------------------------------------
(* app/api/v1/statistics.py *)

\* release_year is a String column, written here as the sequence of its
\* digits; ORDER BY release_year ASC compares the text, digit by digit, a
\* proper prefix coming first
RECURSIVE TextLess(_, _)
TextLess(a, b) ==
    IF b = <<>> THEN FALSE
    ELSE IF a = <<>> THEN TRUE
    ELSE IF Head(a) # Head(b) THEN Head(a) < Head(b)
    ELSE TextLess(Tail(a), Tail(b))

\* the least of a non-empty set of release years
FirstYear(years) == CHOOSE y \in years : \A z \in years \ {y} : TextLess(y, z)

\* ORDER BY release_year ASC
RECURSIVE OrderByYearAsc(_)
OrderByYearAsc(years) ==
    IF years = {} THEN <<>>
    ELSE <<FirstYear(years)>> \o OrderByYearAsc(years \ {FirstYear(years)})

\* get_view_count_by_year without the filter on media_type
get_view_count_by_year_AnyType(media_type, user_id) ==
    LET request == [media_type |-> media_type]
        matching == {v \in ExistingViews : views[v].viewer_id = user_id}
        years == OrderByYearAsc({views[v].release_year : v \in matching})
        results == [i \in 1..Len(years) |->
                       [release_year |-> years[i],
                        count |-> Cardinality({v \in matching :
                                                  views[v].release_year = years[i]})]]
    IN /\ last' = [Response("get_view_count_by_year", NoCookie, request, 200, "", 0,
                            user_id)
                      EXCEPT !.body = [results |-> results]]
       /\ UNCHANGED <<accountVars, contentVars, now, pending, restore, served>>

\* filter(viewer_id, media_type).group_by(release_year).order_by(release_year)
get_view_count_by_year(media_type, user_id) ==
    LET request == [media_type |-> media_type]
        matching == {v \in ExistingViews :
                        /\ views[v].viewer_id = user_id
                        /\ views[v].media_type = media_type}
        years == OrderByYearAsc({views[v].release_year : v \in matching})
        results == [i \in 1..Len(years) |->
                       [release_year |-> years[i],
                        count |-> Cardinality({v \in matching :
                                                  views[v].release_year = years[i]})]]
    IN /\ last' = [Response("get_view_count_by_year", NoCookie, request, 200, "", 0,
                            user_id)
                      EXCEPT !.body = [results |-> results]]
       /\ UNCHANGED <<accountVars, contentVars, now, pending, restore, served>>

----------------------------------------------------------------------------
(* The routes: app/api/v1/router.py and app/main.py. A path is the sequence
   of its segments; "/" is the path with one empty segment *)

Route(method, path, endpoint) == [method |-> method, path |-> path, endpoint |-> endpoint]

\* the routes each module of app/api/v1 declares on its router, with the
\* paths of its decorators
auth_router ==
    {
     Route("POST", <<"register">>, "register_user"),
     Route("POST", <<"login">>, "login_user"),
     Route("POST", <<"forgotten-password">>, "request_password_reset"),
     Route("POST", <<"reset-password">>, "reset_password"),
     Route("GET", <<"logout">>, "logout_user") }

medias_router ==
    {
     Route("POST", <<"">>, "add_media_to_watchlist"),
     Route("PUT", <<"{media_id}">>, "update_media"),
     Route("DELETE", <<"{media_id}">>, "delete_media") }

statistics_router ==
    {
     Route("GET", <<"count", "{media_type}", "{user_id}">>, "get_view_count_by_type"),
     Route("GET", <<"year", "{media_type}", "{user_id}">>, "get_view_count_by_year"),
     Route("GET", <<"runtime", "{media_type}", "{user_id}">>, "get_runtime_by_user") }

users_router ==
    {
     Route("GET", <<"{user_id}">>, "get_user"),
     Route("GET", <<"banner", "{user_id}">>, "get_user_banner"),
     Route("PUT", <<"{user_id}">>, "update_user"),
     Route("PUT", <<"email", "{user_id}">>, "update_user_email"),
     Route("PUT", <<"password", "{user_id}">>, "update_user_password"),
     Route("PUT", <<"banner", "{user_id}">>, "update_user_banner"),
     Route("DELETE", <<"{user_id}">>, "delete_user") }

views_router ==
    {
     Route("GET", <<"{user_id}">>, "get_user_views"),
     Route("GET", <<"{media_type}", "{user_id}">>, "get_user_views_by_type"),
     Route("POST", <<"">>, "add_view"),
     Route("DELETE", <<"{view_id}">>, "delete_view") }

watchlists_router ==
    {
     Route("GET", <<"{user_id}">>, "get_user_watchlists"),
     Route("GET", <<"detail", "{watchlist_id}">>, "get_watchlist_details"),
     Route("POST", <<"">>, "create_watchlist"),
     Route("PUT", <<"{watchlist_id}">>, "update_watchlist"),
     Route("DELETE", <<"{watchlist_id}">>, "delete_watchlist") }

\* the modules of app/api/v1 that have a `router`, with the prefix given to
\* APIRouter(prefix=...) and the routes
Modules ==
    [auth |-> [prefix |-> <<"auth">>, routes |-> auth_router],
     medias |-> [prefix |-> <<"medias">>, routes |-> medias_router],
     statistics |-> [prefix |-> <<"statistics">>, routes |-> statistics_router],
     users |-> [prefix |-> <<"users">>, routes |-> users_router],
     views |-> [prefix |-> <<"views">>, routes |-> views_router],
     watchlists |-> [prefix |-> <<"watchlists">>, routes |-> watchlists_router]]

\* APIRouter.include_router(router, prefix): every route of the router, whose
\* path already starts with the router's own prefix, under the given prefix
include_router(routes, prefix) ==
    {[r EXCEPT !.path = prefix \o r.path] : r \in routes}

\* the routes of a module's router: its own prefix before each decorator path
RouterRoutes(module_name) ==
    include_router(Modules[module_name].routes, Modules[module_name].prefix)

\* main_router.include_router(module.router, prefix="/" + module_name) for
\* every module (no module name has a "_" to replace)
main_router ==
    UNION {include_router(RouterRoutes(module_name), <<module_name>>) :
              module_name \in DOMAIN Modules}

\* app.include_router(main_router, prefix="/api/v1")
app_routes == include_router(main_router, <<"api", "v1">>)

\* the path parameters
Params == {"{user_id}", "{media_id}", "{view_id}", "{watchlist_id}", "{media_type}"}

\* a route path matches a request path segment by segment, a parameter
\* matching any segment
Matches(route_path, path) ==
    /\ Len(route_path) = Len(path)
    /\ \A i \in DOMAIN path : route_path[i] \in Params \/ route_path[i] = path[i]

\* the router's answer to a request line: the endpoint of the route that
\* matches the path and the method; 405 when routes match the path only, 404
\* when none matches the path
Dispatch(method, path) ==
    LET on_path == {r \in app_routes : Matches(r.path, path)}
        full == {r \in on_path : r.method = method} IN
    IF full # {}
    THEN [status |-> 200, detail |-> "", endpoint |-> (CHOOSE r \in full : TRUE).endpoint]
    ELSE IF on_path # {}
    THEN [status |-> 405, detail |-> "Method Not Allowed", endpoint |-> "none"]
    ELSE [status |-> 404, detail |-> "Not Found", endpoint |-> "none"]

----------------------------------------------------------------------------
(* app/database/session.py and app/api/dependencies.py: the session of a
   request.  A request is served in steps, and the steps of different
   requests interleave: get_database makes the session and yields it;
   get_current_user, on the endpoints that depend on it, queries the user
   with that session and returns or raises; the endpoint runs with the same
   session and returns or raises; the code after the yield runs when the
   request ends. *)

\* the requests that have arrived, and the sessions made so far
Requests == DOMAIN served.requests
DatabaseSessions == DOMAIN served.sessions

\* a request arrives for an endpoint that depends on get_current_user
\* (protected) or only on get_database
receive(protected) ==
    /\ Len(served.requests) < MaxRequests
    /\ served' = [served EXCEPT !.requests =
                     Append(@, [pc |-> "received", protected |-> protected,
                                database_session |-> 0])]
    /\ UNCHANGED <<accountVars, contentVars, now, pending, restore, last>>

\* get_database_session up to its yield: database_session = SessionLocal()
get_database_session(r) ==
    /\ r \in Requests
    /\ served.requests[r].pc = "received"
    /\ LET database_session == Len(served.sessions) + 1 IN
       served' = [requests |-> [served.requests EXCEPT
                                   ![r].pc = "yielded",
                                   ![r].database_session = database_session],
                  sessions |-> Append(served.sessions,
                                      [closed |-> FALSE, used_by |-> {r}])]
    /\ UNCHANGED <<accountVars, contentVars, now, pending, restore, last>>

\* the get_current_user dependency of the request: it queries the user with
\* the session of the request and returns the user, or raises 401 or 403
current_user_dependency(r, raises) ==
    /\ r \in Requests
    /\ served.requests[r].pc = "yielded"
    /\ served.requests[r].protected
    /\ served' = [served EXCEPT
                     !.requests[r].pc = IF raises THEN "raised" ELSE "authenticated",
                     !.sessions[served.requests[r].database_session].used_by =
                         @ \cup {r}]
    /\ UNCHANGED <<accountVars, contentVars, now, pending, restore, last>>

\* the endpoint function of the request, with the session of the request:
\* it returns or raises
endpoint(r, raises) ==
    /\ r \in Requests
    /\ served.requests[r].pc =
          IF served.requests[r].protected THEN "authenticated" ELSE "yielded"
    /\ served' = [served EXCEPT
                     !.requests[r].pc = IF raises THEN "raised" ELSE "returned",
                     !.sessions[served.requests[r].database_session].used_by =
                         @ \cup {r}]
    /\ UNCHANGED <<accountVars, contentVars, now, pending, restore, last>>

\* get_database_session with database_session.close() after the yield
\* instead of in a finally clause: an exception thrown into the generator
\* skips it
get_database_session_exit_NoFinally(r) ==
    /\ r \in Requests
    /\ served.requests[r].pc \in {"returned", "raised"}
    /\ served' = [served EXCEPT
                     !.requests[r].pc = "responded",
                     !.sessions[served.requests[r].database_session].closed =
                         (served.requests[r].pc = "returned")]
    /\ UNCHANGED <<accountVars, contentVars, now, pending, restore, last>>

\* get_database_session after its yield, run when the request ends:
\* finally: database_session.close()
get_database_session_exit(r) ==
    /\ r \in Requests
    /\ served.requests[r].pc \in {"returned", "raised"}
    /\ served' = [served EXCEPT
                     !.requests[r].pc = "responded",
                     !.sessions[served.requests[r].database_session].closed = TRUE]
    /\ UNCHANGED <<accountVars, contentVars, now, pending, restore, last>>

\* the next step of request r
serve(r) ==
    \/ get_database_session(r)
    \/ \E raises \in BOOLEAN : current_user_dependency(r, raises)
    \/ \E raises \in BOOLEAN : endpoint(r, raises)
    \/ get_database_session_exit(r)

----------------------------------------------------------------------------
(* app/database/restore_data.py *)

\* str.lower() on the ASCII characters
LowerOf ==
    ("A" :> "a") @@ ("B" :> "b") @@ ("C" :> "c") @@ ("D" :> "d") @@ ("E" :>
    "e") @@ ("F" :> "f") @@ ("G" :> "g") @@ ("H" :> "h") @@ ("I" :> "i") @@
    ("J" :> "j") @@ ("K" :> "k") @@ ("L" :> "l") @@ ("M" :> "m") @@ ("N" :>
    "n") @@ ("O" :> "o") @@ ("P" :> "p") @@ ("Q" :> "q") @@ ("R" :> "r") @@
    ("S" :> "s") @@ ("T" :> "t") @@ ("U" :> "u") @@ ("V" :> "v") @@ ("W" :>
    "w") @@ ("X" :> "x") @@ ("Y" :> "y") @@ ("Z" :> "z")
lower(text) ==
    [i \in DOMAIN text |-> IF text[i] \in DOMAIN LowerOf THEN LowerOf[text[i]] ELSE text[i]]

\* sys.exit(status); a run that reaches the end of main exits with 0
Exit(status) == [restore EXCEPT !.pc = "exited", !.exit_code = status]

\* check_dump_file_exists as main calls it: exists(), is_file(), os.access;
\* the tool exits with 1 when one of them fails
check_dump_file_exists ==
    /\ restore.pc = "main"
    /\ restore' = IF restore.dump_file = "missing" THEN Exit(1)
                  ELSE IF restore.dump_file = "directory" THEN Exit(1)
                  ELSE IF restore.dump_file = "unreadable" THEN Exit(1)
                  ELSE [restore EXCEPT !.pc = "confirm"]
    /\ UNCHANGED <<accountVars, contentVars, now, pending, served, last>>

\* confirm_restore_operation taking the empty answer for a yes
confirm_restore_operation_DefaultYes(response) ==
    /\ restore.pc = "confirm"
    /\ Len(restore.answers) < MaxPrompts
    /\ LET answer == Str(lower(strip(Chars(response))))
           asked == [restore EXCEPT !.answers = Append(@, response)] IN
       restore' = IF answer \in {"y", "yes", ""}
                  THEN [asked EXCEPT !.pc = "restore"]
                  ELSE IF answer \in {"n", "no"}
                  THEN [asked EXCEPT !.pc = "exited", !.exit_code = 0]
                  ELSE asked
    /\ UNCHANGED <<accountVars, contentVars, now, pending, served, last>>

\* one turn of the loop of confirm_restore_operation and what main does with
\* its result: True goes on to the restore, False exits with 0, any other
\* answer asks again
confirm_restore_operation(response) ==
    /\ restore.pc = "confirm"
    /\ Len(restore.answers) < MaxPrompts
    /\ LET answer == Str(lower(strip(Chars(response))))
           asked == [restore EXCEPT !.answers = Append(@, response)] IN
       restore' = IF answer \in {"y", "yes"}
                  THEN [asked EXCEPT !.pc = "restore"]
                  ELSE IF answer \in {"n", "no", ""}
                  THEN [asked EXCEPT !.pc = "exited", !.exit_code = 0]
                  ELSE asked
    /\ UNCHANGED <<accountVars, contentVars, now, pending, served, last>>

\* input() at the end of the input: EOFError is not caught and the
\* interpreter exits with 1
input_EOFError ==
    /\ restore.pc = "confirm"
    /\ restore' = Exit(1)
    /\ UNCHANGED <<accountVars, contentVars, now, pending, served, last>>

\* restore_database and the end of main: psql is run on the dump file;
\* CalledProcessError or another exception makes it return False and the
\* tool exit with 1
restore_database(succeeded) ==
    /\ restore.pc = "restore"
    /\ restore' = IF succeeded
                  THEN [restore EXCEPT !.psql = "succeeded", !.pc = "exited",
                                       !.exit_code = 0]
                  ELSE [restore EXCEPT !.psql = "failed", !.pc = "exited",
                                       !.exit_code = 1]
    /\ UNCHANGED <<accountVars, contentVars, now, pending, served, last>>

----------------------------------------------------------------------------
(* The accounts: app/api/v1/auth.py and app/api/v1/users.py *)

Init ==
    /\ users = <<>>
    /\ next_user_id = 1
    /\ watchlists = <<>>
    /\ next_watchlist_id = 1
    /\ medias = <<>>
    /\ next_media_id = 1
    /\ views = <<>>
    /\ next_view_id = 1
    /\ issued = {}
    /\ next_reset_token = 1
    /\ consumed = {}
    /\ now = 0
    /\ pending = NoPending
    /\ restore = NotStarted
    /\ served = NoRequests
    /\ last = Response("start", NoCookie, NoRequest, 0, "", 0, 0)

\* the account registered as the i-th user
Account(i) ==
    IF i = 1 THEN [username |-> "alice", email |-> "a@x.io"]
    ELSE [username |-> "bobby", email |-> "b@x.io"]

RegisterAccount ==
    \E password \in SomePassword, salt \in FirstSalt :
        register_user(Account(next_user_id).username, Account(next_user_id).email,
                      password, salt)

\* bodies of PUT /users/{id}: every subset of the fields, carrying the
\* username and the email of the second account, and an explicit null for
\* each field
UserUpdates ==
    [username : {"bobby", Unset}, email : {"b@x.io", Unset},
     password : SomePassword \cup {Unset}]
    \cup {[username |-> None, email |-> Unset, password |-> Unset],
          [username |-> Unset, email |-> None, password |-> Unset],
          [username |-> Unset, email |-> Unset, password |-> None]}

Next ==
    \/ RegisterAccount
    \/ \E email \in Emails, password \in SomePassword : login_user(email, password)
    \/ \E c \in Sessions, id \in UserIds, user_data \in UserUpdates, salt \in Salts :
          update_user(c, id, user_data, salt)
    \/ \E c \in Sessions, id \in UserIds, email \in Emails : update_user_email(c, id, email)
    \/ \E c \in Sessions, id \in UserIds, password \in SomePassword, salt \in Salts :
          update_user_password(c, id, password, salt)
    \/ \E c \in Sessions, id \in UserIds, banner \in Banners : update_user_banner(c, id, banner)
    \/ \E c \in Sessions, id \in UserIds : delete_user(c, id)

Spec == Init /\ [][Next]_vars

----------------------------------------------------------------------------
(* The password-reset flow: forgotten-password, reset-password and the two
   handlers of users.py that store a new password *)

ResetTokens == 1..MaxResetTokens

\* bodies of PUT /users/{id} that carry at most a password
PasswordUpdates ==
    [username : {Unset}, email : {Unset}, password : SomePassword \cup {Unset, None}]

NextReset ==
    \/ \E username \in Usernames, email \in Emails, password \in SomePassword,
           salt \in FirstSalt :
          register_user(username, email, password, salt)
    \/ \E email \in Emails, password \in SomePassword : login_user(email, password)
    \/ \E email \in Emails, email_sent \in BOOLEAN : request_password_reset(email, email_sent)
    \/ \E password \in SomePassword, token \in ResetTokens, salt \in Salts :
          reset_password(password, token, salt)
    \/ \E c \in Sessions, id \in UserIds, user_data \in PasswordUpdates, salt \in Salts :
          update_user(c, id, user_data, salt)
    \/ \E c \in Sessions, id \in UserIds, password \in SomePassword, salt \in Salts :
          update_user_password(c, id, password, salt)

SpecReset == Init /\ [][NextReset]_vars

----------------------------------------------------------------------------
(* Watchlists and their media: app/api/v1/watchlists.py, app/api/v1/medias.py *)

\* bodies of POST /watchlists/ and PUT /watchlists/{id}
WatchlistCreates == [title : {"todo"}]
WatchlistUpdates == [title : {"seen", Unset, None}]

\* bodies of POST /medias/ and PUT /medias/{id}
MediaCreates == [tmdb_id : {550}, genre_ids : {<<0>>}, watchlist_id : WatchlistIds]
MediaUpdates == [watchlist_id : WatchlistIds \cup {NoId}]

NextWatch ==
    \/ RegisterAccount
    \/ \E email \in Emails, password \in SomePassword : login_user(email, password)
    \/ \E c \in Sessions, watchlist_data \in WatchlistCreates :
          create_watchlist(c, watchlist_data)
    \/ \E c \in Sessions, id \in WatchlistIds, watchlist_data \in WatchlistUpdates :
          update_watchlist(c, id, watchlist_data)
    \/ \E c \in Sessions, id \in WatchlistIds : delete_watchlist(c, id)
    \/ \E c \in Sessions, media_data \in MediaCreates :
          add_media_to_watchlist(c, media_data)

SpecWatch == Init /\ [][NextWatch]_vars

----------------------------------------------------------------------------
(* Media added to and moved between watchlists: app/api/v1/medias.py *)

NextMedia ==
    \/ RegisterAccount
    \/ \E email \in Emails, password \in SomePassword : login_user(email, password)
    \/ \E c \in Sessions, watchlist_data \in WatchlistCreates :
          create_watchlist(c, watchlist_data)
    \/ \E c \in Sessions, media_data \in MediaCreates :
          add_media_to_watchlist(c, media_data)
    \/ \E c \in Sessions, id \in MediaIds, media_data \in MediaUpdates :
          update_media(c, id, media_data)
    \/ \E c \in Sessions, id \in MediaIds : delete_media(c, id)

SpecMedia == Init /\ [][NextMedia]_vars

----------------------------------------------------------------------------
(* Views: app/api/v1/views.py, and delete_user, which takes the views of
   the user along *)

ViewCreates ==
    [tmdb_id : {550}, media_type : {"movie"}, release_year : {"1999"},
     viewer_id : UserIds]

NextViews ==
    \/ RegisterAccount
    \/ \E email \in Emails, password \in SomePassword : login_user(email, password)
    \/ \E c \in Sessions, view_data \in ViewCreates : add_view(c, view_data)
    \/ \E c \in Sessions, id \in ViewIds : delete_view(c, id)
    \/ \E c \in Sessions, id \in UserIds : delete_user(c, id)

SpecViews == Init /\ [][NextViews]_vars

----------------------------------------------------------------------------
(* The deletion of a user who has watchlists, media and views *)

\* every request carries the cookie of a login; views are recorded and
\* accounts are deleted by their own user
NextCascade ==
    \/ RegisterAccount
    \/ \E email \in Emails, password \in SomePassword : login_user(email, password)
    \/ \E c \in issued, watchlist_data \in WatchlistCreates :
          create_watchlist(c, watchlist_data)
    \/ \E c \in issued, media_data \in MediaCreates :
          add_media_to_watchlist(c, media_data)
    \/ \E c \in issued, view_data \in ViewCreates :
          view_data.viewer_id = c.sub /\ add_view(c, view_data)
    \/ \E c \in issued : delete_user(c, c.sub)

SpecCascade == Init /\ [][NextCascade]_vars

----------------------------------------------------------------------------
(* Authentication: login, the clock, and every endpoint that depends on
   get_current_user, called with every kind of cookie *)

ProtectedEndpoints ==
    {"update_user", "update_user_email", "update_user_password",
     "update_user_banner", "delete_user",
     "create_watchlist", "update_watchlist", "delete_watchlist",
     "add_media_to_watchlist", "update_media", "delete_media",
     "add_view", "delete_view"}

\* one account; at most one watchlist, one media and one view are created,
\* and every protected endpoint is called on the first row of each table
\* with every kind of cookie
NextAuth ==
    \/ \E password \in SomePassword, salt \in FirstSalt :
          register_user("alice", "a@x.io", password, salt)
    \/ \E password \in Passwords : login_user("a@x.io", password)
    \/ Tick
    \/ \E c \in Cookies, salt \in Salts :
          update_user(c, 1, [username |-> Unset, email |-> Unset,
                             password |-> "Passw0rd!"], salt)
    \/ \E c \in Cookies : update_user_email(c, 1, "a@x.io")
    \/ \E c \in Cookies, salt \in Salts :
          update_user_password(c, 1, "Passw0rd!", salt)
    \/ \E c \in Cookies : update_user_banner(c, 1, "banner.png")
    \/ \E c \in Cookies : delete_user(c, 1)
    \/ \E c \in Cookies :
          next_watchlist_id = 1 /\ create_watchlist(c, [title |-> "todo"])
    \/ \E c \in Cookies : update_watchlist(c, 1, [title |-> "seen"])
    \/ \E c \in Cookies : delete_watchlist(c, 1)
    \/ \E c \in Cookies :
          /\ next_media_id = 1
          /\ add_media_to_watchlist(c, [tmdb_id |-> 550, genre_ids |-> <<0>>,
                                        watchlist_id |-> 1])
    \/ \E c \in Cookies : update_media(c, 1, [watchlist_id |-> 1])
    \/ \E c \in Cookies : delete_media(c, 1)
    \/ \E c \in Cookies :
          /\ next_view_id = 1
          /\ add_view(c, [tmdb_id |-> 550, media_type |-> "movie",
                          release_year |-> "1999", viewer_id |-> 1])
    \/ \E c \in Cookies : delete_view(c, 1)

SpecAuth == Init /\ [][NextAuth]_vars

----------------------------------------------------------------------------
(* Login and the use of its cookie: two accounts, right and wrong passwords,
   the clock, and protected endpoints of users.py *)

NextLogin ==
    \/ RegisterAccount
    \/ \E email \in Emails, password \in Passwords : login_user(email, password)
    \/ Tick
    \/ \E c \in Sessions, id \in UserIds, password \in Passwords, salt \in Salts :
          update_user_password(c, id, password, salt)
    \/ \E c \in Sessions, id \in UserIds, banner \in Banners :
          update_user_banner(c, id, banner)
    \/ \E c \in Sessions, id \in UserIds : delete_user(c, id)
    \/ logout_user

SpecLogin == Init /\ [][NextLogin]_vars

----------------------------------------------------------------------------
(* Registrations and updates of username and email that overlap: a PUT
   under /users reads its row, other requests are served, then it commits *)

\* bodies of PUT /users/{id} that carry no password
ProfileUpdates == {user_data \in UserUpdates : user_data.password = Unset}

NextRace ==
    \/ \E username \in Usernames, email \in Emails, password \in SomePassword,
           salt \in FirstSalt :
          register_user(username, email, password, salt)
    \/ \E email \in Emails, password \in SomePassword : login_user(email, password)
    \/ \E c \in Sessions, id \in UserIds, user_data \in ProfileUpdates,
           salt \in FirstSalt :
          begin_update_user(c, id, user_data, salt)
    \/ \E c \in Sessions, id \in UserIds, email \in Emails :
          begin_update_user_email(c, id, email)
    \/ commit_update
    \/ \E c \in Sessions, id \in UserIds : delete_user(c, id)

SpecRace == Init /\ [][NextRace]_vars

----------------------------------------------------------------------------
(* C1 *)

\* the step answers a request: it is not a tick of the clock and it does not
\* leave a request waiting for its commit
Answered == now' = now /\ (pending' = pending \/ pending' = NoPending)

\* the step answers a request to handler op
Answers(op) == last'.op = op /\ Answered

\* no two users share a username and no two share an email
UniqueUsers ==
    \A u, v \in ExistingUsers :
        u # v => /\ users[u].username # users[v].username
                 /\ users[u].email # users[v].email

\* C1: whatever the sequence and the interleaving of register, PUT /users/{id}
\* and PUT /users/email/{id} requests, no two persisted users share a
\* username and no two share an email; a register request whose username and
\* email are held by no user returns 201 and persists exactly one new user,
\* with that username and email; a register request whose username or email
\* is held returns 400 and persists no user.
C1_UniqueUsernamesAndEmails ==
    [][ /\ UniqueUsers'
        /\ Answers("register_user") =>
              LET request == last'.request
                  held == \E u \in ExistingUsers :
                             \/ users[u].username = request.username
                             \/ users[u].email = request.email
              IN IF held
                 THEN last'.status = 400 /\ users' = users
                 ELSE /\ last'.status = 201
                      /\ \E id \in DOMAIN users' \ ExistingUsers :
                            /\ DOMAIN users' = ExistingUsers \cup {id}
                            /\ users'[id].username = request.username
                            /\ users'[id].email = request.email
                      /\ \A u \in ExistingUsers : users'[u] = users[u]
      ]_vars

\* between the read and the commit of a PUT that sets an email, a register
\* request has just been answered 201 for a new user with that email
C1_Witness ==
    /\ pending # NoPending
    /\ "email" \in pending.columns
    /\ pending.user_id \in ExistingUsers
    /\ last.op = "register_user"
    /\ last.status = 201
    /\ last.target \in ExistingUsers
    /\ users[last.target].email = pending.row.email

----------------------------------------------------------------------------
(* C4 *)

UsersMutations == {"update_user", "update_user_email", "update_user_password",
                   "update_user_banner", "delete_user"}

\* C4: every mutation under /users (full update, email, password, banner,
\* delete) whose authenticated caller differs from the path user id returns
\* 403 and changes no user; and an existing user's username, email, banner
\* or existence changes only in a step that answers a /users mutation
\* authenticated as that same user.
C4_OnlySelfMutatesUser ==
    [][ /\ ( /\ Answered
             /\ last'.op \in UsersMutations
             /\ last'.caller # 0
             /\ last'.caller # last'.target )
              => (last'.status = 403 /\ users' = users)
        /\ \A u \in ExistingUsers :
              ( \/ u \notin DOMAIN users'
                \/ users'[u].username # users[u].username
                \/ users'[u].email # users[u].email
                \/ users'[u].profile_banner # users[u].profile_banner )
                  => ( /\ last'.op \in UsersMutations
                       /\ last'.caller = u
                       /\ last'.target = u )
      ]_vars

\* a second user exists and the last request, authenticated as someone else,
\* was refused with 403
C4_Witness ==
    /\ Cardinality(ExistingUsers) = 2
    /\ last.op \in UsersMutations
    /\ last.caller # 0
    /\ last.caller # last.target
    /\ last.target \in ExistingUsers
    /\ last.status = 403

----------------------------------------------------------------------------
(* C2, C3 *)


HoldsToken(token) == {u \in ExistingUsers : users[u].password_token = token}

\* C2: reset tokens are single use: a reset-password request carrying a
\* token that a user holds returns 200, replaces that user's password hash
\* and sets the user's password_token to absent; once a token has been
\* accepted, every later reset-password request carrying it returns 400
\* 'Invalid reset token' and changes no user.
C2_ResetTokenSingleUse ==
    [][ Answers("reset_password") =>
          LET token == last'.request.password_token IN
          /\ token \in consumed =>
                /\ last'.status = 400
                /\ last'.detail = "Invalid reset token"
                /\ users' = users
          /\ \A u \in HoldsToken(token) :
                /\ last'.status = 200
                /\ users'[u].hashed_password # users[u].hashed_password
                /\ users'[u].password_token = NoToken
                /\ token \in consumed'
      ]_vars

\* a token that was accepted before has just been replayed and refused
C2_Witness ==
    /\ last.op = "reset_password"
    /\ last.request.password_token \in consumed
    /\ last.status = 400

\* C3: whenever a user's stored password hash changes, through
\* reset-password, PUT /users/password/{id} or PUT /users/{id} carrying a
\* password, that user's password_token is absent afterwards.
C3_PasswordChangeClearsToken ==
    [][ \A u \in ExistingUsers \cap DOMAIN users' :
          users'[u].hashed_password # users[u].hashed_password
              => users'[u].password_token = NoToken
      ]_vars

----------------------------------------------------------------------------
(* C5, C6 *)

\* the step answers a request that get_current_user let through
Authenticated == Answered /\ last'.caller # 0

\* C5: a PUT or DELETE on an existing watchlist authenticated
\* as a user other than its author returns 403 and leaves every watchlist and
\* every media unchanged; the same request authenticated as the author
\* returns 204 and takes effect (the title sent is stored; a deleted
\* watchlist is gone with its media); on an id that does not exist it
\* returns 404.
C5_WatchlistOwnerOnly ==
    [][ ( /\ last'.op \in {"update_watchlist", "delete_watchlist"}
          /\ Authenticated )
          => LET id == last'.target IN
             IF id \notin ExistingWatchlists
             THEN last'.status = 404 /\ watchlists' = watchlists /\ medias' = medias
             ELSE IF watchlists[id].author_id # last'.caller
             THEN last'.status = 403 /\ watchlists' = watchlists /\ medias' = medias
             ELSE /\ last'.status = 204
                  /\ IF last'.op = "delete_watchlist"
                     THEN /\ id \notin DOMAIN watchlists'
                          /\ \A m \in DOMAIN medias' : medias'[m].watchlist_id # id
                     ELSE /\ id \in DOMAIN watchlists'
                          /\ last'.request.title # Unset
                                => watchlists'[id].title = last'.request.title
      ]_vars

\* C6: POST /medias and PUT /medias/{id} place a media row only in a
\* watchlist the authenticated caller owns. Adding returns 404 when the
\* target watchlist does not exist and 403 when the caller does not own it;
\* updating an existing media returns 403 unless the caller owns the
\* watchlist that holds it and, when a watchlist_id is given, the destination
\* too; a refusal creates no media and changes no media; a move that
\* succeeds leaves the media in the destination.
C6_MediaPlacedInOwnWatchlist ==
    [][ /\ \A m \in DOMAIN medias' :
              ( m \notin ExistingMedias
                \/ medias'[m].watchlist_id # medias[m].watchlist_id )
                  => /\ last'.op \in {"add_media_to_watchlist", "update_media"}
                     /\ medias'[m].watchlist_id \in ExistingWatchlists
                     /\ watchlists[medias'[m].watchlist_id].author_id = last'.caller
        /\ ( last'.op = "add_media_to_watchlist" /\ Authenticated )
              => LET to == last'.request.watchlist_id IN
                 IF to \notin ExistingWatchlists
                 THEN last'.status = 404 /\ medias' = medias
                 ELSE IF watchlists[to].author_id # last'.caller
                 THEN last'.status = 403 /\ medias' = medias
                 ELSE last'.status = 201
        /\ ( last'.op = "update_media" /\ Authenticated
                                      /\ last'.target \in ExistingMedias )
              => LET m == last'.target
                     to == last'.request.watchlist_id
                     Owns(w) == /\ w \in ExistingWatchlists
                                /\ watchlists[w].author_id = last'.caller
                 IN IF Owns(medias[m].watchlist_id) /\ (to # NoId => Owns(to))
                    THEN /\ last'.status = 204
                         /\ to # NoId => medias'[m].watchlist_id = to
                    ELSE last'.status = 403 /\ medias' = medias
      ]_vars

\* a media has just been moved into another watchlist of its owner
C6_Witness ==
    /\ last.op = "update_media"
    /\ last.status = 204
    /\ last.request.watchlist_id # NoId
    /\ last.target \in ExistingMedias
    /\ medias[last.target].watchlist_id = last.request.watchlist_id
    /\ \E w \in ExistingWatchlists : watchlists[w].author_id # last.caller

----------------------------------------------------------------------------
(* C7, C8 *)

\* C7: a view is created only by an add-view request whose viewer_id is the
\* authenticated caller (another viewer_id: 403, nothing created); a view
\* disappears only in a request authenticated as its viewer_id (delete-view
\* on an id that does not exist: 404; by another user: 403, nothing
\* deleted); a view that stays is never modified, so its viewer_id remains
\* the user who created it.
C7_ViewsBelongToTheirCreator ==
    [][ /\ \A v \in DOMAIN views' \ ExistingViews :
              /\ last'.op = "add_view"
              /\ last'.status = 201
              /\ last'.caller # 0
              /\ views'[v].viewer_id = last'.caller
              /\ last'.request.viewer_id = last'.caller
        /\ \A v \in ExistingViews :
              IF v \in DOMAIN views'
              THEN views'[v] = views[v]
              ELSE /\ last'.op \in {"delete_view", "delete_user"}
                   /\ last'.caller = views[v].viewer_id
        /\ ( last'.op = "add_view" /\ Authenticated
                                  /\ last'.request.viewer_id # last'.caller )
              => last'.status = 403 /\ views' = views
        /\ ( last'.op = "delete_view" /\ Authenticated )
              => IF last'.target \notin ExistingViews
                 THEN last'.status = 404 /\ views' = views
                 ELSE IF views[last'.target].viewer_id # last'.caller
                 THEN last'.status = 403 /\ views' = views
                 ELSE last'.status = 204 /\ last'.target \notin DOMAIN views'
      ]_vars

\* views of two users exist and a request to record a view for the other
\* user has just been refused
C7_Witness ==
    /\ last.op = "add_view"
    /\ last.status = 403
    /\ last.caller # 0
    /\ last.request.viewer_id \in ExistingUsers \ {last.caller}
    /\ \E v, w \in ExistingViews : views[v].viewer_id # views[w].viewer_id

\* C8: when DELETE /users/{id} succeeds, no watchlist of that user, no media
\* of a watchlist that was theirs and no view of theirs remains, and the
\* users, watchlists, media and views of every other user are unchanged.
C8_DeleteUserCascades ==
    [][ ( Answers("delete_user") /\ last'.status = 204 )
          => LET id == last'.target
                 theirs == {w \in ExistingWatchlists : watchlists[w].author_id = id}
             IN /\ id \in ExistingUsers /\ id \notin DOMAIN users'
                /\ \A w \in DOMAIN watchlists' : watchlists'[w].author_id # id
                /\ \A m \in DOMAIN medias' : medias'[m].watchlist_id \notin theirs
                /\ \A v \in DOMAIN views' : views'[v].viewer_id # id
                /\ \A u \in ExistingUsers \ {id} :
                      u \in DOMAIN users' /\ users'[u] = users[u]
                /\ \A w \in ExistingWatchlists \ theirs :
                      w \in DOMAIN watchlists' /\ watchlists'[w] = watchlists[w]
                /\ \A m \in ExistingMedias :
                      medias[m].watchlist_id \notin theirs
                          => m \in DOMAIN medias' /\ medias'[m] = medias[m]
                /\ \A v \in ExistingViews :
                      views[v].viewer_id # id
                          => v \in DOMAIN views' /\ views'[v] = views[v]
      ]_vars

\* a user who had a watchlist, a media and a view has just been deleted;
\* another user still has a watchlist, a media and a view
C8_Witness ==
    /\ last.op = "delete_user"
    /\ last.status = 204
    /\ last.target \notin ExistingUsers
    /\ ExistingUsers # {}
    /\ ExistingWatchlists # {} /\ Cardinality(ExistingWatchlists) < next_watchlist_id - 1
    /\ ExistingMedias # {} /\ Cardinality(ExistingMedias) < next_media_id - 1
    /\ ExistingViews # {} /\ Cardinality(ExistingViews) < next_view_id - 1

----------------------------------------------------------------------------
(* C9, C10 *)

\* nothing that is persisted changes
NothingPersisted == UNCHANGED <<accountVars, contentVars>>

C10_LoginAuthenticates ==
    [][ /\ Answers("login_user") =>
              \A u \in ExistingUsers :
                  ( /\ users[u].email = last'.request.email
                    /\ \E salt \in Salts : users[u].hashed_password =
                            hash_password(last'.request.password, salt) )
                    => /\ last'.status = 200
                       /\ last'.body.username = users[u].username
                       /\ last'.body.email = users[u].email
                       /\ last'.set_cookie.sig = "valid"
                       /\ last'.set_cookie.sub = u
                       /\ last'.set_cookie.exp > now
                       /\ last'.set_cookie \in issued'
        /\ ( /\ Answered
              /\ last'.op \in ProtectedEndpoints
              /\ last'.access_token \in issued
              /\ now < last'.access_token.exp
              /\ last'.access_token.sub \in ExistingUsers )
              => last'.caller = last'.access_token.sub
      ]_vars

\* the second of two users has logged in and a protected endpoint has just
\* run as that user on the cookie of the login
C10_Witness ==
    /\ Cardinality(ExistingUsers) = 2
    /\ last.op = "update_user_banner"
    /\ last.access_token \in issued
    /\ last.access_token.sub = 2
    /\ last.caller = 2
    /\ last.status = 204

----------------------------------------------------------------------------
(* C11 *)

\* the users a login request with these credentials would be accepted for
Accepts(email, password) ==
    {u \in ExistingUsers :
        /\ users[u].email = email
        /\ \E salt \in Salts :
              users[u].hashed_password = hash_password(password, salt)}

\* C11: a login request fails in the same way when no user has its email and
\* when its password is not the one the stored hash was made from: status
\* 401, detail 'Invalid credentials', no cookie set, no body, nothing
\* persisted changed; the response to a given request is this one response
\* in both cases, so it does not tell whether the email is registered.
C11_LoginFailuresAlike ==
    [][ ( /\ Answers("login_user")
          /\ Accepts(last'.request.email, last'.request.password) = {} )
          => /\ last' = Response("login_user", NoCookie, last'.request, 401,
                                 "Invalid credentials", 0, 0)
             /\ NothingPersisted
      ]_vars

\* a login with the wrong password for a registered email has just failed,
\* while another email is held by no user
C11_Witness ==
    /\ last.op = "login_user"
    /\ last.status = 401
    /\ \E u \in ExistingUsers : users[u].email = last.request.email
    /\ \E email \in Emails : \A u \in ExistingUsers : users[u].email # email

----------------------------------------------------------------------------
(* The seven operations under /users, on ids that name a user and on ids
   that name none *)

\* bodies of PUT /users/{id} that carry one new username or nothing
UsernameUpdates ==
    {user_data \in ProfileUpdates : user_data.email = Unset /\ user_data.username # None}

NextUsers ==
    \/ RegisterAccount
    \/ \E email \in Emails, password \in SomePassword : login_user(email, password)
    \/ \E id \in UserIds : get_user(id)
    \/ \E id \in UserIds : get_user_banner(id)
    \/ \E c \in Sessions, id \in UserIds, user_data \in UsernameUpdates,
           salt \in FirstSalt :
          update_user(c, id, user_data, salt)
    \/ \E c \in Sessions, id \in UserIds, email \in Emails : update_user_email(c, id, email)
    \/ \E c \in Sessions, id \in UserIds, password \in SomePassword, salt \in FirstSalt :
          update_user_password(c, id, password, salt)
    \/ \E c \in Sessions, id \in UserIds, banner \in Banners : update_user_banner(c, id, banner)
    \/ \E c \in Sessions, id \in UserIds : delete_user(c, id)

SpecUsers == Init /\ [][NextUsers]_vars

(* C12 *)

UsersReads == {"get_user", "get_user_banner"}

\* the step answers an operation under /users whose path id names no user
AnswersMissingUser ==
    /\ Answered
    /\ last'.op \in UsersReads \cup UsersMutations
    /\ last'.target \notin ExistingUsers

----------------------------------------------------------------------------
(* C13 *)

\* the reset tokens that are or have been stored
UsedTokens == {users[u].password_token : u \in ExistingUsers} \cup consumed

\* C13: a forgotten-password request for the email of an existing user stores
\* a fresh reset token for that user whether or not the email goes out: the
\* response is 200 when it was sent and 500 when its dispatch failed, and in
\* both the token is stored and no other user's token changes; a request for
\* an unknown email is answered 401 and changes no token; and a
\* reset-password request carrying a stored token is accepted (200), so the
\* token of a failed dispatch is accepted too.
C13_TokenStoredBeforeEmail ==
    [][ /\ Answers("request_password_reset")
          => LET user == UserByEmail(last'.request.email) IN
             IF user = 0
             THEN last'.status = 401 /\ NothingPersisted
             ELSE /\ last'.status \in {200, 500}
                  /\ last'.target = user
                  /\ users'[user].password_token # NoToken
                  /\ users'[user].password_token \notin UsedTokens
                  /\ \A u \in ExistingUsers \ {user} : users'[u] = users[u]
        /\ ( /\ Answers("reset_password")
             /\ \E u \in ExistingUsers :
                   users[u].password_token = last'.request.password_token )
          => last'.status = 200
      ]_vars

\* the dispatch of the email has just failed (500) and the user holds the new
\* token
C13_Witness ==
    /\ last.op = "request_password_reset"
    /\ last.status = 500
    /\ last.target \in ExistingUsers
    /\ users[last.target].password_token # NoToken
    /\ users[last.target].password_token \notin consumed

----------------------------------------------------------------------------
(* Partial updates: PUT /watchlists/{id} and PUT /users/{id} *)

\* bodies of PUT /users/{id} that carry at most one field, and one with a
\* null username
OneFieldUpdates ==
    {user_data \in UserUpdates :
        /\ Cardinality({f \in {"username", "email", "password"} :
                            user_data[f] # Unset}) <= 1
        /\ user_data.email # None
        /\ user_data.password # None}

\* the first account logs in; the requests are those of logged-in users
NextPartial ==
    \/ RegisterAccount
    \/ \E password \in SomePassword : login_user(Account(1).email, password)
    \/ \E c \in issued, watchlist_data \in WatchlistCreates :
          create_watchlist(c, watchlist_data)
    \/ \E c \in issued, media_data \in MediaCreates :
          add_media_to_watchlist(c, media_data)
    \/ \E c \in issued, id \in WatchlistIds, watchlist_data \in WatchlistUpdates :
          update_watchlist(c, id, watchlist_data)
    \/ \E c \in issued, id \in UserIds, user_data \in OneFieldUpdates, salt \in Salts :
          update_user(c, id, user_data, salt)

SpecPartial == Init /\ [][NextPartial]_vars

(* C14 *)

\* C14: an update applies only the fields its body carries. An accepted PUT
\* /watchlists/{id} stores the title it carries and leaves the watchlist's
\* author_id, every other watchlist and all media rows as they were; an
\* accepted PUT /users/{id} leaves each of username, email and password hash
\* that the body omits at its stored value, stores the username and the email
\* it carries, and changes no other user; a PUT that is not accepted changes
\* nothing.
C14_UpdatesOnlySuppliedFields ==
    [][ /\ Answers("update_watchlist")
          => IF last'.status # 204 THEN NothingPersisted
             ELSE LET id == last'.target
                      title == last'.request.title IN
                  /\ DOMAIN watchlists' = DOMAIN watchlists
                  /\ watchlists'[id].title =
                        IF title = Unset THEN watchlists[id].title ELSE title
                  /\ watchlists'[id].author_id = watchlists[id].author_id
                  /\ \A w \in ExistingWatchlists \ {id} : watchlists'[w] = watchlists[w]
                  /\ medias' = medias
                  /\ UNCHANGED <<accountVars, views>>
        /\ Answers("update_user")
          => IF last'.status # 204 THEN NothingPersisted
             ELSE LET id == last'.target
                      user_data == last'.request IN
                  /\ DOMAIN users' = DOMAIN users
                  /\ users'[id].username =
                        IF user_data.username = Unset THEN users[id].username
                        ELSE user_data.username
                  /\ users'[id].email =
                        IF user_data.email = Unset THEN users[id].email
                        ELSE user_data.email
                  /\ user_data.password = Unset
                        => users'[id].hashed_password = users[id].hashed_password
                  /\ user_data.password # Unset
                        => verify_password(user_data.password, users'[id].hashed_password)
                  /\ users'[id].profile_banner = users[id].profile_banner
                  /\ \A u \in ExistingUsers \ {id} : users'[u] = users[u]
                  /\ UNCHANGED contentVars
      ]_vars

\* a watchlist that holds media has just been given a new title, by a body
\* that carried only the title
C14_Witness ==
    /\ last.op = "update_watchlist"
    /\ last.status = 204
    /\ last.request.title \notin {Unset, None}
    /\ last.target \in ExistingWatchlists
    /\ watchlists[last.target].title = last.request.title
    /\ MediasOf({last.target}) # {}

----------------------------------------------------------------------------
(* The detail of a watchlist, with and without a genre filter *)

Genres == {18, 35}

\* bodies of POST /medias/ with no genre, one genre and two genres
GenreMediaCreates ==
    [tmdb_id : {550}, genre_ids : {<<>>, <<18>>, <<35, 18>>}, watchlist_id : WatchlistIds]

\* the first account logs in; watchlists and media are those of logged-in
\* users
NextDetail ==
    \/ RegisterAccount
    \/ \E password \in SomePassword : login_user(Account(1).email, password)
    \/ \E c \in issued, watchlist_data \in WatchlistCreates :
          create_watchlist(c, watchlist_data)
    \/ \E c \in issued, media_data \in GenreMediaCreates :
          add_media_to_watchlist(c, media_data)
    \/ \E c \in issued, id \in MediaIds : delete_media(c, id)
    \/ \E id \in WatchlistIds, genre \in Genres \cup {NoGenre} :
          get_watchlist_details(id, genre)

SpecDetail == Init /\ [][NextDetail]_vars

(* C15 *)

\* the media of a watchlist
MediaIn(watchlist_id) == {m \in ExistingMedias : medias[m].watchlist_id = watchlist_id}

\* C15: GET /watchlists/detail/{id}?genre=g answers 404 when the watchlist
\* does not exist; otherwise the media it returns are exactly the media of
\* the watchlist whose genre_ids contain g (all of them when no genre is
\* given), medias_count is the number of all media of the watchlist whatever
\* g is, and the returned list is not longer than medias_count.
C15_DetailFiltersListNotCount ==
    [][ Answers("get_watchlist_details")
          => LET id == last'.target
                 g == last'.request.genre IN
             /\ NothingPersisted
             /\ IF id \notin ExistingWatchlists
                THEN last'.status = 404
                ELSE /\ last'.status = 200
                     /\ {media.id : media \in last'.body.medias} =
                           {m \in MediaIn(id) :
                               g = NoGenre \/
                               \E i \in DOMAIN medias[m].genre_ids :
                                    medias[m].genre_ids[i] = g}
                     /\ \A media \in last'.body.medias :
                           /\ media.tmdb_id = medias[media.id].tmdb_id
                           /\ media.genre_ids = medias[media.id].genre_ids
                     /\ last'.body.medias_count = Cardinality(MediaIn(id))
                     /\ Cardinality(last'.body.medias) <= last'.body.medias_count
      ]_vars

\* a genre filter has just returned some, but not all, of the media of a
\* watchlist
C15_Witness ==
    /\ last.op = "get_watchlist_details"
    /\ last.status = 200
    /\ last.request.genre # NoGenre
    /\ last.body.medias # {}
    /\ Cardinality(last.body.medias) < last.body.medias_count

----------------------------------------------------------------------------
(* The statistics by release year *)

MediaTypes == {"movie", "tv"}
ReleaseYears == {<<1, 9, 9, 9>>, <<2, 0, 0, 1>>}

\* bodies of POST /views/
YearViewCreates ==
    [tmdb_id : {550}, media_type : MediaTypes, release_year : ReleaseYears,
     viewer_id : UserIds]

\* views are recorded and deleted by logged-in users
NextYear ==
    \/ RegisterAccount
    \/ \E email \in Emails, password \in SomePassword : login_user(email, password)
    \/ \E c \in issued, view_data \in YearViewCreates : add_view(c, view_data)
    \/ \E c \in issued, id \in ViewIds : delete_view(c, id)
    \/ \E media_type \in MediaTypes, id \in UserIds :
          get_view_count_by_year(media_type, id)

SpecYear == Init /\ [][NextYear]_vars

(* C16 *)

\* the views of a user that have a media type
ViewsOfType(user_id, media_type) ==
    {v \in ExistingViews :
        views[v].viewer_id = user_id /\ views[v].media_type = media_type}

\* C16: GET /statistics/year/{media_type}/{user_id} returns one group for
\* each distinct release_year among the views of that user with that media
\* type and no other group; the count of a group is the number of those
\* views with its release_year; and the groups come in ascending order of
\* release_year.
C16_OneGroupPerYearAscending ==
    [][ Answers("get_view_count_by_year")
          => LET mine == ViewsOfType(last'.target, last'.request.media_type)
                 results == last'.body.results IN
             /\ last'.status = 200
             /\ NothingPersisted
             /\ {results[i].release_year : i \in DOMAIN results} =
                   {views[v].release_year : v \in mine}
             /\ \A i \in DOMAIN results :
                   results[i].count =
                      Cardinality({v \in mine :
                                      views[v].release_year = results[i].release_year})
             /\ \A i, j \in DOMAIN results :
                   i < j => TextLess(results[i].release_year, results[j].release_year)
      ]_vars

\* the last answer has two groups, for views that were recorded with the
\* later release year first
C16_Witness ==
    /\ last.op = "get_view_count_by_year"
    /\ Len(last.body.results) = 2
    /\ \E v, w \in ExistingViews :
          /\ v < w
          /\ views[v].release_year = last.body.results[2].release_year
          /\ views[w].release_year = last.body.results[1].release_year

----------------------------------------------------------------------------
(* The password validator applied to the texts over a small alphabet: a
   digit, an uppercase letter, a lowercase letter, a character of the special
   set, and a character of none of the four classes *)

PasswordAlphabet == {"7", "Q", "q", "+", "_"}

\* the texts of at most MaxChars characters
PasswordTexts ==
    UNION {[1..n -> PasswordAlphabet] : n \in 0..MaxChars}

InitPassword ==
    /\ users = <<>>
    /\ next_user_id = 1
    /\ watchlists = <<>>
    /\ next_watchlist_id = 1
    /\ medias = <<>>
    /\ next_media_id = 1
    /\ views = <<>>
    /\ next_view_id = 1
    /\ issued = {}
    /\ next_reset_token = 1
    /\ consumed = {}
    /\ now = 0
    /\ pending = NoPending
    /\ restore = NotStarted
    /\ served = NoRequests
    /\ \E password \in PasswordTexts :
          last = Response("start", NoCookie, [password |-> password], 0, "", 0, 0)

\* the validator is applied to the password of the request
ValidatePassword ==
    /\ last.op = "start"
    /\ LET result == password_is_valid(last.request.password) IN
       last' = [Response("password_is_valid", NoCookie, last.request,
                         result.status_code, result.key, 0, 0)
                   EXCEPT !.body = [raised |-> result.raised, value |-> result.value]]
    /\ UNCHANGED <<accountVars, contentVars, now, pending, restore, served>>

NextPassword == ValidatePassword

SpecPassword == InitPassword /\ [][NextPassword]_vars

(* C17 *)

\* the character classes in the order of the claim, each with its error kind
PasswordClasses ==
    << [class |-> Digit, key |-> "password_missing_digit_error_key"],
       [class |-> Upper, key |-> "password_missing_uppercase_error_key"],
       [class |-> Lower, key |-> "password_missing_lower_case_error_key"],
       [class |-> Special, key |-> "password_missing_special_character_error_key"] >>

\* the positions of the classes no character of the text belongs to
MissingClasses(text) ==
    {k \in DOMAIN PasswordClasses :
        \A i \in DOMAIN text : text[i] \notin PasswordClasses[k].class}

----------------------------------------------------------------------------
(* Requests with their body validation: POST /auth/register and
   PUT /users/password/{user_id} *)

\* the body is validated, then the handler runs
register_user_request(user_data, salt) ==
    LET validation == UserRegister(user_data) IN
    IF validation.status # 200
    THEN Invalid("register_user", NoCookie, user_data, validation, 0, 0)
    ELSE register_user(validation.value.username, validation.value.email,
                       validation.value.password, salt)

\* get_current_user is solved before the body is validated
update_user_password_request(access_token, user_id, password_data, salt) ==
    LET current_user == get_current_user(access_token)
        validation == UserUpdatePassword(password_data) IN
    IF current_user.status # 200
    THEN Refuse("update_user_password", access_token, password_data,
                current_user.status, current_user.detail, 0, user_id)
    ELSE IF validation.status # 200
    THEN Invalid("update_user_password", access_token, password_data, validation,
                 current_user.user, user_id)
    ELSE update_user_password(access_token, user_id, validation.value.password, salt)

\* bodies of POST /auth/register: a username that is long enough and one that
\* is not; an email, the same email between spaces, and a text without "@";
\* a password, one without a digit, and one of four characters
RegisterBodies ==
    [username : {"alice", "al"},
     email : {"a@x.io", " a@x.io ", "a.x.io"},
     password : {"Passw0rd!", "Password!", "Pw0!"},
     confirm_password : {"Passw0rd!", "S3cret+pw", "Password!"}]

\* bodies of PUT /users/password/{user_id}
PasswordBodies ==
    [password : {"S3cret+pw", "Password!", "Pw0!"},
     confirm_password : {"S3cret+pw", "Password!"}]

NextValidation ==
    \/ \E user_data \in RegisterBodies, salt \in FirstSalt :
          register_user_request(user_data, salt)
    \/ \E password \in Passwords : login_user("a@x.io", password)
    \/ \E c \in Sessions, id \in UserIds, password_data \in PasswordBodies,
           salt \in Salts :
          update_user_password_request(c, id, password_data, salt)

SpecValidation == Init /\ [][NextValidation]_vars

(* C18 *)

\* the email, or a password field that goes through the password validator,
\* breaks the rules of its validator
BreaksRegisterRules(user_data) ==
    \/ email_is_valid(Chars(user_data.email)).raised
    \/ password_is_valid(Chars(user_data.password)).raised
    \/ password_is_valid(Chars(user_data.confirm_password)).raised

BreaksPasswordRules(password_data) ==
    password_is_valid(Chars(password_data.password)).raised

\* the response is a validation error: 422 with a non-empty list of
\* {location, message, type} records
IsValidationError(response) ==
    /\ response.status = 422
    /\ DOMAIN response.body = {"detail", "errors"}
    /\ response.body.errors # <<>>
    /\ \A i \in DOMAIN response.body.errors :
          DOMAIN response.body.errors[i] = {"location", "message", "type"}

\* the response is the error of a validator rule: its status (400) with the
\* key and the message of the rule
IsRuleError(response) ==
    /\ response.status = 400
    /\ DOMAIN response.body = {"key", "message"}
    /\ response.body.key \in {PASSWORD_MISSING_DIGIT_ERROR.key,
                              PASSWORD_MISSING_UPPERCASE_ERROR.key,
                              PASSWORD_MISSING_LOWER_CASE_ERROR.key,
                              PASSWORD_MISSING_SPECIAL_CHARACTER_ERROR.key,
                              INVALID_EMAIL_ERROR.key}

----------------------------------------------------------------------------
(* Request lines given to the router *)

Methods == {"GET", "POST", "PUT", "DELETE"}

\* a path with a value in the place of each parameter
Concrete(path) == [i \in DOMAIN path |-> IF path[i] \in Params THEN "7" ELSE path[i]]

\* the path the specification gives a route: /api/v1, the prefix of its group
\* once, the path of the endpoint
DocumentedPath(module_name, route) ==
    Concrete(<<"api", "v1">> \o Modules[module_name].prefix \o route.path)

\* every method on every documented path and on every registered path
RequestLines ==
    [method : Methods,
     path : UNION {{DocumentedPath(module_name, r) : r \in Modules[module_name].routes} :
                      module_name \in DOMAIN Modules}
            \cup {Concrete(r.path) : r \in app_routes}]

InitRoutes ==
    /\ users = <<>>
    /\ next_user_id = 1
    /\ watchlists = <<>>
    /\ next_watchlist_id = 1
    /\ medias = <<>>
    /\ next_media_id = 1
    /\ views = <<>>
    /\ next_view_id = 1
    /\ issued = {}
    /\ next_reset_token = 1
    /\ consumed = {}
    /\ now = 0
    /\ pending = NoPending
    /\ restore = NotStarted
    /\ served = NoRequests
    /\ \E request \in RequestLines :
          last = Response("start", NoCookie, request, 0, "", 0, 0)

\* the request line is given to the router
RouteRequest ==
    /\ last.op = "start"
    /\ LET answer == Dispatch(last.request.method, last.request.path) IN
       last' = [Response("dispatch", NoCookie, last.request, answer.status,
                         answer.detail, 0, 0)
                   EXCEPT !.body = [endpoint |-> answer.endpoint]]
    /\ UNCHANGED <<accountVars, contentVars, now, pending, restore, served>>

NextRoutes == RouteRequest

SpecRoutes == InitRoutes /\ [][NextRoutes]_vars

(* C19 *)

\* C19: every endpoint of the six groups is reachable at /api/v1, followed by
\* the prefix of its group exactly once, followed by the path of the
\* endpoint: a request with the method of the endpoint on that path is
\* dispatched to the endpoint (POST /api/v1/auth/register to register_user,
\* GET /api/v1/users/{user_id} to get_user).
C19_EndpointsUnderGroupPrefixOnce ==
    last.op = "dispatch"
      => \A module_name \in DOMAIN Modules :
            \A r \in Modules[module_name].routes :
               ( /\ last.request.method = r.method
                 /\ last.request.path = DocumentedPath(module_name, r) )
                 => last.body.endpoint = r.endpoint

----------------------------------------------------------------------------
(* A run of the restore tool *)

\* what the path given to the tool is
DumpFiles == {"missing", "directory", "unreadable", "readable"}

\* what the user types at the prompt
PromptAnswers == {"y", "yes", " Y ", "n", "no", "", "maybe", "ok"}

InitRestore ==
    /\ users = <<>>
    /\ next_user_id = 1
    /\ watchlists = <<>>
    /\ next_watchlist_id = 1
    /\ medias = <<>>
    /\ next_media_id = 1
    /\ views = <<>>
    /\ next_view_id = 1
    /\ issued = {}
    /\ next_reset_token = 1
    /\ consumed = {}
    /\ now = 0
    /\ pending = NoPending
    /\ served = NoRequests
    /\ \E dump_file \in DumpFiles :
          restore = [NotStarted EXCEPT !.pc = "main", !.dump_file = dump_file]
    /\ last = Response("start", NoCookie, NoRequest, 0, "", 0, 0)

NextRestore ==
    \/ check_dump_file_exists
    \/ \E response \in PromptAnswers : confirm_restore_operation(response)
    \/ input_EOFError
    \/ \E succeeded \in BOOLEAN : restore_database(succeeded)

SpecRestore == InitRestore /\ [][NextRestore]_vars

(* C20 *)

\* what an answer typed at the prompt means
Says(response) ==
    LET answer == Str(lower(strip(Chars(response)))) IN
    IF answer \in {"y", "yes"} THEN "yes"
    ELSE IF answer \in {"n", "no", ""} THEN "no"
    ELSE "again"

\* psql has been invoked
Loaded == restore.psql # "not run" \/ restore.pc = "restore"

\* C20: the restore tool invokes the bulk load only after the dump file has
\* passed the exists / is-file / readable check and the user has answered
\* yes at the prompt, every earlier answer having been neither a yes nor a
\* no (those are asked again; an empty answer, n or no declines); a missing
\* or unreadable dump exits with 1 before any prompt; a declined confirmation
\* exits with 0 without a load; a load that fails exits with 1 and one that
\* succeeds exits with 0.
C20_LoadOnlyAfterCheckAndYes ==
    LET answers == restore.answers
        n == Len(answers) IN
    /\ \A i \in 1..(n - 1) : Says(answers[i]) = "again"
    /\ Loaded => /\ restore.dump_file = "readable"
                 /\ n > 0
                 /\ Says(answers[n]) = "yes"
    /\ (n > 0 /\ Says(answers[n]) = "again" /\ restore.pc # "exited")
          => restore.pc = "confirm"
    /\ restore.pc = "exited"
          => /\ restore.dump_file # "readable"
                  => (restore.exit_code = 1 /\ n = 0 /\ ~Loaded)
             /\ (n > 0 /\ Says(answers[n]) = "no")
                  => (restore.exit_code = 0 /\ ~Loaded)
             /\ restore.psql = "failed" => restore.exit_code = 1
             /\ restore.psql = "succeeded" => restore.exit_code = 0
             /\ restore.exit_code \in {0, 1}

\* the tool has exited with 0 after a load that succeeded, the user having
\* been asked twice
C20_Witness ==
    /\ restore.pc = "exited"
    /\ restore.psql = "succeeded"
    /\ restore.exit_code = 0
    /\ Len(restore.answers) = 2

----------------------------------------------------------------------------
(* C21: every mutation of users.py, watchlists.py, medias.py and views.py,
   called by each of two logged-in users on rows that exist, rows of the
   other user and ids that name no row *)

\* the body of PUT /users/{id} that carries no field
EmptyUpdate == [username |-> Unset, email |-> Unset, password |-> Unset]

\* the first watchlist, its first media row and the first view are created;
\* every mutation is then called with the cookie of either user
NextChecks ==
    \/ RegisterAccount
    \/ \E email \in Emails, password \in SomePassword : login_user(email, password)
    \/ \E c \in issued, id \in UserIds, salt \in FirstSalt :
          update_user(c, id, EmptyUpdate, salt)
    \/ \E c \in issued, id \in UserIds : update_user_email(c, id, "a@x.io")
    \/ \E c \in issued, id \in UserIds, password \in SomePassword, salt \in FirstSalt :
          update_user_password(c, id, password, salt)
    \/ \E c \in issued, id \in UserIds : update_user_banner(c, id, "banner.png")
    \/ \E c \in issued, id \in UserIds : delete_user(c, id)
    \/ \E c \in issued, watchlist_data \in WatchlistCreates :
          next_watchlist_id = 1 /\ create_watchlist(c, watchlist_data)
    \/ \E c \in issued, id \in WatchlistIds :
          update_watchlist(c, id, [title |-> "seen"])
    \/ \E c \in issued, id \in WatchlistIds : delete_watchlist(c, id)
    \/ \E c \in issued, media_data \in MediaCreates :
          next_media_id = 1 /\ add_media_to_watchlist(c, media_data)
    \/ \E c \in issued, id \in MediaIds, media_data \in MediaUpdates :
          update_media(c, id, media_data)
    \/ \E c \in issued, id \in MediaIds : delete_media(c, id)
    \/ \E c \in issued, view_data \in ViewCreates :
          next_view_id = 1 /\ add_view(c, view_data)
    \/ \E c \in issued, id \in ViewIds : delete_view(c, id)

SpecChecks == Init /\ [][NextChecks]_vars

\* C21: a request on users, watchlists, media or views that is answered 403
\* or 404 leaves every persisted user, watchlist, media row and view as it
\* was before the request.
C21_RefusedRequestsWriteNothing ==
    [][ ( Answered /\ last'.op \in ProtectedEndpoints /\ last'.status \in {403, 404} )
          => /\ users' = users
             /\ watchlists' = watchlists
             /\ medias' = medias
             /\ views' = views
      ]_vars

\* a logged-in user has just been refused the deletion of a view that exists
\* and belongs to the other user
C21_Witness ==
    /\ last.op = "delete_view"
    /\ last.status = 403
    /\ last.caller \in ExistingUsers
    /\ last.target \in ExistingViews
    /\ views[last.target].viewer_id # last.caller

----------------------------------------------------------------------------
(* C22: updates of the profile that carry a username, an email and a
   password in any combination, committed while the other account holds
   the username and the email they ask for *)

\* bodies of PUT /users/{id}: every subset of the fields, with the username
\* and the email of the second account
ConflictUpdates ==
    [username : {"bobby", Unset}, email : {"b@x.io", Unset},
     password : SomePassword \cup {Unset}]

NextConflict ==
    \/ RegisterAccount
    \/ \E email \in Emails, password \in SomePassword : login_user(email, password)
    \/ \E c \in issued, user_data \in ConflictUpdates, salt \in Salts :
          begin_update_user(c, c.sub, user_data, salt)
    \/ \E c \in issued, email \in Emails : begin_update_user_email(c, c.sub, email)
    \/ commit_update

SpecConflict == Init /\ [][NextConflict]_vars

\* the row of the pending request as its UPDATE would leave it
PendingRow == Flushed(users[pending.user_id], pending.columns, pending.row)

\* C22: when the commit of PUT /users/{id} or PUT /users/email/{id} would
\* give the user a username or an email that another user holds, the request
\* is answered 400 and no user row changes: neither the conflicting field nor
\* a username or password sent with it is stored; and every such request
\* answered 400 leaves all that is persisted unchanged.
C22_ConflictRollsBackAllFields ==
    [][ /\ ( /\ pending # NoPending
             /\ pending' = NoPending
             /\ pending.columns # {}
             /\ pending.user_id \in ExistingUsers
             /\ UniqueViolation(pending.user_id, PendingRow) )
            => /\ last'.op = pending.op
               /\ last'.status = 400
               /\ users' = users
        /\ ( Answered /\ last'.op \in {"update_user", "update_user_email"}
               /\ last'.status = 400 )
            => NothingPersisted
      ]_vars

\* an update carrying a new password together with the email of the other
\* user has just been answered 400
C22_Witness ==
    /\ last.op = "update_user"
    /\ last.status = 400
    /\ last.request.password # Unset
    /\ last.request.email # Unset
    /\ last.target \in ExistingUsers
    /\ \E o \in ExistingUsers \ {last.target} : users[o].email = last.request.email
    /\ users[last.target].hashed_password.salt = "s1"

----------------------------------------------------------------------------
(* C23: rows inserted and media moved while the parent row is deleted by
   another request *)

\* one account, deleted and registered again under a new id; its requests
\* overlap one another; one media row and one view are inserted
NextParents ==
    \/ \E password \in SomePassword, salt \in FirstSalt :
          register_user("alice", "a@x.io", password, salt)
    \/ \E password \in SomePassword : login_user("a@x.io", password)
    \/ \E c \in issued, watchlist_data \in WatchlistCreates :
          begin_create_watchlist(c, watchlist_data)
    \/ \E c \in issued, media_data \in MediaCreates :
          next_media_id = 1 /\ begin_add_media_to_watchlist(c, media_data)
    \/ \E c \in issued, id \in MediaIds, media_data \in MediaUpdates :
          begin_update_media(c, id, media_data)
    \/ \E c \in issued, view_data \in ViewCreates :
          /\ next_view_id = 1
          /\ view_data.viewer_id = c.sub
          /\ begin_add_view(c, view_data)
    \/ commit_content
    \/ \E c \in issued, id \in WatchlistIds : delete_watchlist(c, id)
    \/ \E c \in issued : delete_user(c, c.sub)

SpecParents == Init /\ [][NextParents]_vars

\* C23: in every reachable state, whatever requests are served between the
\* queries and the commit of another, every watchlist's author_id names an
\* existing user, every media row's watchlist_id names an existing watchlist
\* and every view's viewer_id names an existing user.
C23_NoRowReferencesDeletedParent ==
    /\ \A w \in ExistingWatchlists : watchlists[w].author_id \in ExistingUsers
    /\ \A m \in ExistingMedias : medias[m].watchlist_id \in ExistingWatchlists
    /\ \A v \in ExistingViews : views[v].viewer_id \in ExistingUsers

\* a request to move a media row into a watchlist that existed when the
\* handler looked it up, and was deleted before the commit, has just been
\* answered; the media row is still there
C23_Witness ==
    /\ last.op = "update_media"
    /\ last.status = 500
    /\ last.detail = "database_error"
    /\ last.target \in ExistingMedias
    /\ last.request.watchlist_id # NoId
    /\ last.request.watchlist_id \notin ExistingWatchlists
    /\ last.caller \in ExistingUsers

----------------------------------------------------------------------------
(* C24: the sessions of requests served side by side.  The server runs
   every request it has received to its end, so each request keeps taking
   its next step. *)

NextSessions ==
    \/ \E protected \in BOOLEAN : receive(protected)
    \/ \E r \in 1..MaxRequests : serve(r)

SpecSessions ==
    /\ Init
    /\ [][NextSessions]_vars
    /\ \A r \in 1..MaxRequests : WF_vars(serve(r))

\* every request that has got a session has one of its own, which no other
\* request has used, and once the request has ended its session is closed
OwnSessionClosedAtEnd ==
    /\ \A r \in Requests :
          LET request == served.requests[r] IN
          /\ request.pc # "received"
                => /\ request.database_session \in DatabaseSessions
                   /\ served.sessions[request.database_session].used_by = {r}
                   /\ \A q \in Requests \ {r} :
                         served.requests[q].database_session
                            # request.database_session
          /\ request.pc = "responded"
                => served.sessions[request.database_session].closed
    /\ \A d \in DatabaseSessions : Cardinality(served.sessions[d].used_by) = 1

\* C24: each request opens its own session and no session is used by two
\* requests; a session is closed once its request has ended; and every
\* session that is opened is eventually closed, whether the endpoint returns
\* or raises and also when get_current_user raises.
C24_EverySessionClosed ==
    /\ []OwnSessionClosedAtEnd
    /\ \A d \in 1..MaxRequests :
          ( d \in DatabaseSessions /\ ~served.sessions[d].closed )
             ~> ( d \in DatabaseSessions /\ served.sessions[d].closed )

\* a request refused by get_current_user has ended with its session closed
\* while another request still holds its own open session
C24_Witness ==
    \E r, q \in Requests :
        /\ served.requests[r].protected
        /\ served.requests[r].pc = "responded"
        /\ served.sessions[served.requests[r].database_session].closed
        /\ served.sessions[served.requests[r].database_session].used_by = {r}
        /\ served.requests[q].pc \in {"yielded", "authenticated"}
        /\ ~served.sessions[served.requests[q].database_session].closed

----------------------------------------------------------------------------
(* C25: create_access_token applied to every subject and expiry, and
   verify_token applied to the token at the instant of issue and later *)

\* expires_delta: None, or a timedelta in units of the clock (negative,
\* zero or positive)
ExpiresDeltas == {<<>>} \cup {<<d>> : d \in -2..MaxDelta}

InitToken ==
    /\ users = <<>>
    /\ next_user_id = 1
    /\ watchlists = <<>>
    /\ next_watchlist_id = 1
    /\ medias = <<>>
    /\ next_media_id = 1
    /\ views = <<>>
    /\ next_view_id = 1
    /\ issued = {}
    /\ next_reset_token = 1
    /\ consumed = {}
    /\ now = 0
    /\ pending = NoPending
    /\ restore = NotStarted
    /\ served = NoRequests
    /\ \E subject \in UserIds, expires_delta \in ExpiresDeltas :
          last = Response("start", NoCookie,
                          [subject |-> subject, expires_delta |-> expires_delta],
                          0, "", 0, 0)

\* create_access_token is applied to the subject and the expiry of the request
IssueToken ==
    /\ last.op = "start"
    /\ LET token == create_access_token(last.request.subject,
                                        last.request.expires_delta) IN
       /\ issued' = issued \cup {token}
       /\ last' = [Response("create_access_token", NoCookie, last.request, 0, "",
                            0, 0) EXCEPT !.set_cookie = token]
    /\ UNCHANGED <<users, next_user_id, next_reset_token, consumed, contentVars,
                   now, pending, restore, served>>

\* verify_token is applied to the token issued: status 200 and the subject,
\* or 401 and the key of the error raised
VerifyToken ==
    /\ last.op \in {"create_access_token", "verify_token"}
    /\ \E token \in issued :
          LET verified == verify_token(token) IN
          last' = Response("verify_token", token, last.request,
                           IF verified.error = "" THEN 200 ELSE 401,
                           verified.error, verified.sub, 0)
    /\ UNCHANGED <<accountVars, contentVars, now, pending, restore, served>>

NextToken == IssueToken \/ VerifyToken \/ Tick

SpecToken == InitToken /\ [][NextToken]_vars

\* C25: the token issued for a subject carries sub = the subject and
\* exp = the instant of issue + expires_delta for every expiry supplied, and
\* exp = the instant of issue + the configured lifetime only when none is
\* supplied; verify_token returns the subject before exp and raises the
\* expired-token error after exp.
C25_TokenCarriesRequestedExpiry ==
    [][ /\ IssueToken
           => LET token == last'.set_cookie
                  expires_delta == last.request.expires_delta IN
              /\ token.sub = last.request.subject
              /\ token.exp = IF expires_delta = <<>>
                             THEN now + JWT_ACCESS_TOKEN_EXPIRES_IN
                             ELSE now + expires_delta[1]
        /\ VerifyToken
           => LET token == last'.access_token IN
              /\ now < token.exp
                    => last'.status = 200 /\ last'.caller = token.sub
              /\ now > token.exp
                    => /\ last'.status = 401
                       /\ last'.detail = "expired_token_error_key"
      ]_vars

----------------------------------------------------------------------------
(* C26 *)

\* C26: on every protected endpoint, a request carrying an access token that
\* was issued by a login, has not expired and names a user that no longer
\* exists is answered 403, is served as no user at all and changes nothing
\* that is persisted.
C26_TokenOfDeletedUserRejected ==
    [][ ( /\ Answered
          /\ last'.op \in ProtectedEndpoints
          /\ last'.access_token \in issued
          /\ last'.access_token.exp > now
          /\ last'.access_token.sub \notin ExistingUsers )
          => /\ last'.status = 403
             /\ last'.detail = "Could not validate credentials"
             /\ last'.caller = 0
             /\ NothingPersisted
      ]_vars

\* the account was deleted and registered again under a new id, and a
\* request carrying the unexpired token of the deleted user has just been
\* refused
C26_Witness ==
    /\ last.op \in ProtectedEndpoints
    /\ last.access_token \in issued
    /\ last.access_token.exp > now
    /\ last.access_token.sub \notin ExistingUsers
    /\ ExistingUsers # {}
    /\ last.status = 403
    /\ last.caller = 0

----------------------------------------------------------------------------
(* C27 *)

\* the reset tokens generated so far (uuid4 values, numbered in the order of
\* their generation), and those among them that no user holds any more
GeneratedTokens == 1..(next_reset_token - 1)
SupersededTokens == {t \in GeneratedTokens : HoldsToken(t) = {}}

\* C27: a user holds at most one reset token: a forgotten-password request
\* for a user stores a token newer than every token generated before, and
\* the token the user held until then is held by nobody afterwards; a
\* reset-password request carrying a token that was generated and is no
\* longer held returns 400 and changes no user; and a reset-password request
\* that succeeds carries the token its user held, the last one generated for
\* that user.
C27_NewTokenReplacesEarlier ==
    [][ /\ ( Answers("request_password_reset") /\ last'.target # 0 )
          => LET user == last'.target
                 earlier == users[user].password_token IN
             /\ users'[user].password_token \notin GeneratedTokens \cup {NoToken}
             /\ users'[user].password_token = next_reset_token' - 1
             /\ earlier # NoToken
                   => \A u \in ExistingUsers : users'[u].password_token # earlier
        /\ Answers("reset_password")
          => LET token == last'.request.password_token IN
             /\ token \in SupersededTokens
                   => /\ last'.status = 400
                      /\ last'.detail = "Invalid reset token"
                      /\ users' = users
             /\ last'.status = 200
                   => /\ users[last'.target].password_token = token
                      /\ \A u \in ExistingUsers \ {last'.target} :
                            users'[u] = users[u]
      ]_vars

\* nobody has logged in, the only user has asked for a reset twice, and a
\* reset-password request carrying the first token has just been refused
\* while the user holds the second
C27_Witness ==
    /\ issued = {}
    /\ ExistingUsers = {1}
    /\ consumed = {}
    /\ users[1].password_token = 2
    /\ last.op = "reset_password"
    /\ last.request.password_token = 1
    /\ last.status = 400

----------------------------------------------------------------------------
(* C28: one account that logs in with its first password, logs out, changes
   its password through PUT /users/password/{id} and through the reset flow,
   and calls the protected endpoints with the cookies of its logins; the
   account is never deleted (DELETE /users/{id} is called on another id)
   and asks for one reset token *)

NextRevoke ==
    \/ \E password \in SomePassword, salt \in FirstSalt :
          register_user("alice", "a@x.io", password, salt)
    \/ \E password \in SomePassword : login_user("a@x.io", password)
    \/ Tick
    \/ logout_user
    \/ \E c \in issued, salt \in Salts :
          update_user_password(c, c.sub, "S3cret+pw", salt)
    \/ next_reset_token = 1 /\ request_password_reset("a@x.io", TRUE)
    \/ \E salt \in Salts : reset_password("S3cret+pw", 1, salt)
    \/ \E c \in issued : delete_user(c, c.sub + 1)
    \/ \E c \in issued, salt \in FirstSalt :
          update_user(c, c.sub, EmptyUpdate, salt)
    \/ \E c \in issued : update_user_email(c, c.sub, "a@x.io")
    \/ \E c \in issued : update_user_banner(c, c.sub, "banner.png")
    \/ \E c \in issued :
          next_watchlist_id = 1 /\ create_watchlist(c, [title |-> "todo"])
    \/ \E c \in issued : update_watchlist(c, 1, [title |-> "seen"])
    \/ \E c \in issued : delete_watchlist(c, 1)
    \/ \E c \in issued :
          /\ next_media_id = 1
          /\ add_media_to_watchlist(c, [tmdb_id |-> 550, genre_ids |-> <<0>>,
                                        watchlist_id |-> 1])
    \/ \E c \in issued : update_media(c, 1, [watchlist_id |-> 1])
    \/ \E c \in issued : delete_media(c, 1)
    \/ \E c \in issued :
          /\ next_view_id = 1
          /\ add_view(c, [tmdb_id |-> 550, media_type |-> "movie",
                          release_year |-> "1999", viewer_id |-> c.sub])
    \/ \E c \in issued : delete_view(c, 1)

SpecRevoke == Init /\ [][NextRevoke]_vars

\* the access token is one a login issued, has not expired and names a user
\* that exists
Live(access_token) ==
    /\ access_token \in issued
    /\ access_token.exp > now
    /\ access_token.sub \in ExistingUsers

\* C28: a logout, a password update or a reset-password request leaves every
\* issued, unexpired token of an existing user accepted by get_current_user
\* as that user; and every request on a protected endpoint carrying such a
\* token is served as the token's user, never refused by authentication,
\* whatever logouts and password changes came before.
C28_IssuedTokensStayValid ==
    [][ /\ ( Answered /\ last'.op \in {"logout_user", "update_user_password",
                                       "reset_password"} )
          => \A c \in issued :
                Live(c) => get_current_user(c)' =
                              [status |-> 200, detail |-> "", user |-> c.sub]
        /\ ( Answered /\ last'.op \in ProtectedEndpoints /\ Live(last'.access_token) )
          => /\ last'.caller = last'.access_token.sub
             /\ last'.status # 401
             /\ last'.detail \notin {"Access token not found",
                                     "Could not validate credentials"}
      ]_vars

\* the password was replaced through the reset flow, after which the first
\* password, the only one logins are made with, is refused; a request carrying
\* the cookie of a login made before has just been served with 2xx
C28_Witness ==
    /\ last.op \in ProtectedEndpoints
    /\ last.access_token \in issued
    /\ last.access_token.sub \in ExistingUsers
    /\ last.caller = last.access_token.sub
    /\ last.status \in {201, 204}
    /\ consumed # {}
    /\ users[last.caller].hashed_password.digest[2] = "S3cret+pw"

----------------------------------------------------------------------------
(* C29: two accounts, one with a watchlist and a view; reset tokens are
   asked for either account, and reset-password is sent with every token:
   one a user holds, one that was replaced or used, one not generated yet *)

NextResetFrame ==
    \/ RegisterAccount
    \/ \E password \in SomePassword : login_user("a@x.io", password)
    \/ \E c \in issued :
          next_watchlist_id = 1 /\ create_watchlist(c, [title |-> "todo"])
    \/ \E c \in issued :
          /\ next_view_id = 1
          /\ add_view(c, [tmdb_id |-> 550, media_type |-> "movie",
                          release_year |-> "1999", viewer_id |-> c.sub])
    \/ \E email \in Emails : request_password_reset(email, TRUE)
    \/ \E password \in Passwords, token \in ResetTokens, salt \in Salts :
          reset_password(password, token, salt)

SpecResetFrame == Init /\ [][NextResetFrame]_vars

\* C29: a reset-password request that succeeds changes the password hash and
\* the password_token of exactly one user, a user whose stored password_token
\* equals the token sent, and nothing else of that user; every other user and
\* all watchlists, media and views stay as they were; a request that does not
\* succeed changes no user; and whatever token is sent, no user whose
\* password_token is absent is changed.
C29_ResetChangesOnlyTokenHolder ==
    [][ Answers("reset_password")
          => LET token == last'.request.password_token IN
             /\ DOMAIN users' = DOMAIN users
             /\ UNCHANGED contentVars
             /\ last'.status = 200
                   => \E u \in HoldsToken(token) :
                         /\ last'.target = u
                         /\ users'[u].hashed_password # users[u].hashed_password
                         /\ users'[u] =
                               [users[u] EXCEPT
                                   !.hashed_password = users'[u].hashed_password,
                                   !.password_token = NoToken]
                         /\ \A o \in ExistingUsers \ {u} : users'[o] = users[o]
             /\ last'.status # 200 => users' = users
             /\ \A u \in ExistingUsers :
                   users[u].password_token = NoToken => users'[u] = users[u]
      ]_vars

\* a reset has just succeeded for one user while the other user, who has a
\* watchlist and a view, holds no token
C29_Witness ==
    /\ last.op = "reset_password"
    /\ last.status = 200
    /\ last.target \in ExistingUsers
    /\ \E o \in ExistingUsers \ {last.target} :
          /\ users[o].password_token = NoToken
          /\ WatchlistsOf({o}) # {}
          /\ ViewsOf({o}) # {}

----------------------------------------------------------------------------
(* C30: the watchlists of a user are listed while the user adds, moves and
   deletes a media row *)

NextListing ==
    \/ \E password \in SomePassword, salt \in FirstSalt :
          register_user("alice", "a@x.io", password, salt)
    \/ \E password \in SomePassword : login_user("a@x.io", password)
    \/ \E c \in issued, watchlist_data \in WatchlistCreates :
          create_watchlist(c, watchlist_data)
    \/ \E c \in issued, media_data \in MediaCreates :
          next_media_id = 1 /\ add_media_to_watchlist(c, media_data)
    \/ \E c \in issued, id \in MediaIds, media_data \in MediaUpdates :
          update_media(c, id, media_data)
    \/ \E c \in issued, id \in MediaIds : delete_media(c, id)
    \/ \E user_id \in UserIds : get_user_watchlists(user_id)
    \/ get_user_watchlists_medias

SpecListing == Init /\ [][NextListing]_vars

\* C30: in every element of the list GET /watchlists/{user_id} returns,
\* medias_count is the number of entries of the element's medias, also when
\* media of the watchlist are added, moved or deleted while the list is
\* being computed.
C30_CountMatchesSummaryList ==
    [][ Answers("get_user_watchlists")
          => \A watchlist_response \in last'.body.watchlists :
                watchlist_response.medias_count
                   = Cardinality(watchlist_response.medias)
      ]_vars

====
